---- MODULE Spec2Model ----
(***************************************************************************)
(* Segment lifecycle pipeline of AIAT_Snippets                              *)
(* (src/src/app/services/agent_service.py, AgentService):                   *)
(*   segmentation planning -> merge -> cleansing -> filter -> remap.        *)
(*                                                                         *)
(* Python str values are modelled as sequences of one-character strings,   *)
(* so that formatting (f"seg_{n}"), parsing (int(), str.isdigit(),         *)
(* str.split) and joining (" ".join) are computed, not assumed.            *)
(* Python float seconds are modelled as integers.                          *)
(***************************************************************************)
EXTENDS Integers, Sequences, FiniteSets, TLC

VARIABLES
    pc,                 \* position of the running stage function
    mini_segments,      \* run_preprocessing: mini_segments_with_ids
    num_batches,        \* run_preprocessing: processing_batches
    batch_i,            \* loop variable i of the current batched loop
    all_break_points,   \* get_batched_segmentation_plan: accumulator (before sort)
    chunk_breaks,       \* history: what call_llm_for_segmentation returned per chunk
    break_points,       \* run_preprocessing: break_points
    merged_segments,    \* run_preprocessing: merged_input_segments
    all_removal_objects,\* run_batched_llm_cleansing: accumulator
    seen_ids,           \* run_batched_llm_cleansing: seen_ids
    batch_removals,     \* history: what call_llm_for_cleansing returned per batch
    removal_data,       \* run_preprocessing: removal_data
    files,              \* artifacts written by save_json: file name -> content
    result,             \* return value of the stage function ("none" while running)
    oracle_log,         \* history: what the oracle did on each call, oldest first
    crew_raw,           \* history: raw text of each crew.kickoff() result
    llm_return,         \* return value of get_llm_response_content
    status_writes,      \* process_session_pipeline: every job_status written, in order
    stage_trace,        \* history: the stage functions that returned, with their results
    prompt_log,         \* history: the chunk put in each batched oracle prompt
    sessions,           \* the session table: rows in insertion order
    enqueued,           \* process_session_pipeline.delay(id): the ids, in order
    req,                \* the HTTP requests in flight: position, locals, response
    snippets,           \* the snippet table: rows in insertion order
    trims,              \* history: every range the trimming engine was asked to cut
    video_result        \* history: what each call of process_video_with_ffmpeg returned

vars == <<pc, mini_segments, num_batches, batch_i, all_break_points, chunk_breaks,
          break_points, merged_segments, all_removal_objects, seen_ids,
          batch_removals, removal_data, files, result, oracle_log, crew_raw,
          llm_return, status_writes, stage_trace, prompt_log, sessions, enqueued, req,
          snippets, trims, video_result>>

\* the state of the API and of the video service
serviceVars == <<sessions, enqueued, req, snippets, trims, video_result>>

NoRequests == [r \in {} |-> <<>>]

\* no request was made, no snippet was saved and no video was cut
ServiceIdle ==
    /\ sessions = <<>>
    /\ enqueued = <<>>
    /\ req = NoRequests
    /\ snippets = <<>>
    /\ trims = <<>>
    /\ video_result = <<>>

(***************************************************************************)
(* Bounds                                                                  *)
(***************************************************************************)
MaxUnits == 3
MaxBatches == 3
MaxResp == 2
MaxBreaks == 3

(***************************************************************************)
(* Python str / list helpers                                               *)
(***************************************************************************)
Digits == <<"0", "1", "2", "3", "4", "5", "6", "7", "8", "9">>

\* A character for which str.isdigit() is True and int() raises ValueError
\* (e.g. a superscript two).
SupDigit == "sup2"

IsAsciiDigit(c) == \E d \in 1..10 : Digits[d] = c

DigitVal(c) == (CHOOSE d \in 1..10 : Digits[d] = c) - 1

\* str.isdigit(): non-empty and every character is a digit character.
IsDigit(s) == Len(s) > 0 /\ \A k \in 1..Len(s) : IsAsciiDigit(s[k]) \/ s[k] = SupDigit

\* int(s) succeeds (over the alphabet of the model) on an optional '-' followed
\* by a non-empty run of ASCII digits.
RECURSIVE DecVal(_)
DecVal(s) == IF Len(s) = 0 THEN 0
             ELSE 10 * DecVal(SubSeq(s, 1, Len(s) - 1)) + DigitVal(s[Len(s)])

AllAscii(s) == Len(s) > 0 /\ \A k \in 1..Len(s) : IsAsciiDigit(s[k])

IntParses(s) == \/ AllAscii(s)
                \/ Len(s) > 1 /\ s[1] = "-" /\ AllAscii(Tail(s))

ParseInt(s) == IF s[1] = "-" THEN 0 - DecVal(Tail(s)) ELSE DecVal(s)

\* str(n) / f"{n}" for an int.
RECURSIVE NatStr(_)
NatStr(n) == IF n < 10 THEN <<Digits[n + 1]>>
             ELSE NatStr(n \div 10) \o <<Digits[(n % 10) + 1]>>

IntStr(n) == IF n < 0 THEN <<"-">> \o NatStr(0 - n) ELSE NatStr(n)

\* sep.join(parts)
RECURSIVE Join(_, _)
Join(sep, parts) ==
    IF Len(parts) = 0 THEN <<>>
    ELSE IF Len(parts) = 1 THEN parts[1]
    ELSE parts[1] \o sep \o Join(sep, Tail(parts))

\* s.split(c) for a one-character separator c.
RECURSIVE Split(_, _)
Split(s, c) ==
    IF \A k \in 1..Len(s) : s[k] # c THEN <<s>>
    ELSE LET p == CHOOSE k \in 1..Len(s) : s[k] = c /\ \A j \in 1..(k - 1) : s[j] # c
         IN  <<SubSeq(s, 1, p - 1)>> \o Split(SubSeq(s, p + 1, Len(s)), c)

\* lst[a:b] for 0 <= a and any integer b (a negative b counts from the end).
Slice(lst, a, b) ==
    LET hi == IF b < 0 THEN (IF Len(lst) + b < 0 THEN 0 ELSE Len(lst) + b)
              ELSE IF b > Len(lst) THEN Len(lst) ELSE b
    IN  IF a >= hi THEN <<>> ELSE SubSeq(lst, a + 1, hi)

Min(a, b) == IF a < b THEN a ELSE b

\* math.ceil(a / b) for a >= 0, b >= 1
CeilDiv(a, b) == (a + b - 1) \div b

Range(s) == {s[k] : k \in 1..Len(s)}

\* sorted(list(set(xs))) for a list of ints
RECURSIVE SortSet(_)
SortSet(S) == IF S = {} THEN <<>>
              ELSE LET m == CHOOSE x \in S : \A y \in S : x <= y
                   IN  <<m>> \o SortSet(S \ {m})

\* dedupe keeping first occurrences, without sorting
RECURSIVE DedupKeepOrder(_)
DedupKeepOrder(xs) ==
    IF Len(xs) = 0 THEN <<>>
    ELSE LET front == DedupKeepOrder(SubSeq(xs, 1, Len(xs) - 1))
         IN  IF \E k \in 1..Len(front) : front[k] = xs[Len(xs)]
             THEN front ELSE Append(front, xs[Len(xs)])

SortedDedup(xs) == SortSet(Range(xs))

\* sequences over S of length at most n
SeqUpTo(S, n) == UNION {[1..k -> S] : k \in 0..n}


(***************************************************************************)
(* Input: the transcript                                                   *)
(***************************************************************************)
TextSet == {<<>>, <<"a">>, <<"b", " ", "c">>}

\* One transcript line; line k (0-based) spans seconds 10k .. 10k+7.
Line(k, txt) == [text |-> txt, start_second |-> 10 * k, end_second |-> 10 * k + 7]

Transcripts(n) == {[k \in 1..n |-> Line(k - 1, t[k])] : t \in [1..n -> TextSet]}

\* A transcript whose line texts are fixed by position.
FixedText(k) == IF k % 2 = 0 THEN <<"a">> ELSE <<"b", " ", "c">>

FixedTranscript(n) == [k \in 1..n |-> Line(k - 1, FixedText(k - 1))]

\* run_preprocessing: item['mini_seg_id'] = i for i, item in enumerate(input_data)
WithIds(input_data) ==
    [k \in 1..Len(input_data) |->
        [mini_seg_id |-> k - 1,
         text |-> input_data[k].text,
         start_second |-> input_data[k].start_second,
         end_second |-> input_data[k].end_second]]

(***************************************************************************)
(* The oracle's answer to one segmentation prompt                          *)
(***************************************************************************)
\* JSON elements of the decoded list.
JInt(n) == [t |-> "int", n |-> n, s |-> <<>>]
JStr(s) == [t |-> "str", n |-> 0, s |-> s]
JOther == [t |-> "other", n |-> 0, s |-> <<>>]     \* float, bool, null, object, list

SegElems(total) ==
    {JInt(n) : n \in (0 - 1)..total}
        \cup {JStr(IntStr(1)), JStr(<<"x">>), JStr(<<SupDigit>>), JOther}

\* kind: "none"    get_llm_response_content returned None (all attempts failed)
\*       "empty"   the response text is ""
\*       "prose"   no '[' ... ']' region in the text
\*       "badjson" a bracketed region that json.loads rejects
\*       "json"    a bracketed region that decodes to the list items
Resp(kind, items) == [kind |-> kind, items |-> items]

FailedResps == {Resp(k, <<>>) : k \in {"none", "empty", "prose", "badjson"}}

SegResps(total) ==
    FailedResps \cup {Resp("json", it) : it \in SeqUpTo(SegElems(total), MaxResp)}

\* str(x) of a decoded element that is an int or a str
ElemStr(x) == IF x.t = "int" THEN IntStr(x.n) ELSE x.s

\* isinstance(x, (int, str)) and str(x).isdigit()
KeepElem(x) == x.t \in {"int", "str"} /\ IsDigit(ElemStr(x))

\* int(x) raises ValueError
IntRaises(x) == x.t = "str" /\ ~IntParses(x.s)

ElemInt(x) == IF x.t = "int" THEN x.n ELSE ParseInt(x.s)

RECURSIVE KeptInts(_)
KeptInts(items) ==
    IF Len(items) = 0 THEN <<>>
    ELSE IF KeepElem(items[1]) THEN <<ElemInt(items[1])>> \o KeptInts(Tail(items))
    ELSE KeptInts(Tail(items))

\* a response without a JSON list is read as the single breakpoint 0
call_llm_for_segmentation_ProseIsZero(resp) ==
    IF resp.kind = "prose" THEN <<0>>
    ELSE IF resp.kind # "json" THEN <<>>
    ELSE IF \E k \in 1..Len(resp.items) : KeepElem(resp.items[k]) /\ IntRaises(resp.items[k])
         THEN <<>>
    ELSE KeptInts(resp.items)

call_llm_for_segmentation(resp) ==
    IF resp.kind # "json" THEN <<>>
    ELSE IF \E k \in 1..Len(resp.items) : KeepElem(resp.items[k]) /\ IntRaises(resp.items[k])
         THEN <<>>
    ELSE KeptInts(resp.items)

(***************************************************************************)
(* get_batched_segmentation_plan: batching and the final merge step        *)
(***************************************************************************)
BatchSize(total, nb) == CeilDiv(total, nb)

\* the loop without its break: every one of the num_batches iterations asks
LoopRuns_NoBreak(i, total, nb) == i < nb

\* the loop over range(num_batches) runs iteration i
LoopRuns(i, total, nb) == i < nb /\ i * BatchSize(total, nb) < total

\* lines 145-150 and 237-242: current_batch = lst[start_idx: end_idx]
CurrentBatch(lst, i, nb) ==
    Slice(lst, i * BatchSize(Len(lst), nb),
          Min((i + 1) * BatchSize(Len(lst), nb), Len(lst)))

\* sorted() without the set(): duplicates survive
RECURSIVE SortList(_)
SortList(xs) ==
    IF Len(xs) = 0 THEN <<>>
    ELSE LET m == CHOOSE k \in 1..Len(xs) : \A j \in 1..Len(xs) : xs[k] <= xs[j]
         IN  <<xs[m]>> \o SortList([j \in 1..(Len(xs) - 1) |-> IF j < m THEN xs[j] ELSE xs[j + 1]])

FinalizeBreaks_NoDedupe(all_bps, total) ==
    LET sorted == SortList(all_bps)
    IN  IF Len(sorted) = 0 \/ sorted[Len(sorted)] < total - 1
        THEN Append(sorted, total - 1)
        ELSE sorted

\* lines 156-160: sort, dedupe, append the last id
FinalizeBreaks(all_bps, total) ==
    LET sorted == SortedDedup(all_bps)
        last_global_id == total - 1
    IN  IF Len(sorted) = 0 \/ sorted[Len(sorted)] < last_global_id
        THEN Append(sorted, last_global_id)
        ELSE sorted

(***************************************************************************)
(* execute_merge_plan                                                      *)
(***************************************************************************)
\* 0-based segment ids
SegId_ZeroBased(counter) == <<"s", "e", "g", "_">> \o IntStr(counter - 1)

SegId(counter) == <<"s", "e", "g", "_">> \o IntStr(counter)

\* texts joined without the separator, end taken from the first constituent
BigSegment_NoSpace(chunk, counter) ==
    [id |-> <<"s", "e", "g", "_">> \o IntStr(counter),
     text |-> Join(<<>>, [k \in 1..Len(chunk) |-> chunk[k].text]),
     start |-> chunk[1].start_second,
     end |-> chunk[Len(chunk)].end_second,
     mini_segments_used |-> [k \in 1..Len(chunk) |-> chunk[k].mini_seg_id]]

BigSegment(chunk, counter) ==
    [id |-> SegId(counter),
     text |-> Join(<<" ">>, [k \in 1..Len(chunk) |-> chunk[k].text]),
     start |-> chunk[1].start_second,
     end |-> chunk[Len(chunk)].end_second,
     mini_segments_used |-> [k \in 1..Len(chunk) |-> chunk[k].mini_seg_id]]

\* the cursor is not advanced past an emitted chunk
RECURSIVE MergeLoop_NoAdvance(_, _, _, _, _)
MergeLoop_NoAdvance(mini, bps, current_start_idx, seg_counter, merged) ==
    IF Len(bps) = 0 THEN merged
    ELSE LET slice_end == Min(bps[1] + 1, Len(mini))
             chunk == Slice(mini, current_start_idx, slice_end)
         IN  IF Len(chunk) = 0
             THEN MergeLoop_NoAdvance(mini, Tail(bps), slice_end, seg_counter, merged)
             ELSE MergeLoop_NoAdvance(mini, Tail(bps), current_start_idx, seg_counter + 1,
                                      Append(merged, BigSegment(chunk, seg_counter)))

RECURSIVE MergeLoop(_, _, _, _, _)
MergeLoop(mini, bps, current_start_idx, seg_counter, merged) ==
    IF Len(bps) = 0 THEN merged
    ELSE LET slice_end == Min(bps[1] + 1, Len(mini))
             chunk == Slice(mini, current_start_idx, slice_end)
         IN  IF Len(chunk) = 0
             THEN MergeLoop(mini, Tail(bps), slice_end, seg_counter, merged)
             ELSE MergeLoop(mini, Tail(bps), slice_end, seg_counter + 1,
                            Append(merged, BigSegment(chunk, seg_counter)))

\* the cursor starts at 1 instead of 0
execute_merge_plan_From1(mini, bps) == MergeLoop(mini, bps, 1, 1, <<>>)

execute_merge_plan(mini, bps) == MergeLoop(mini, bps, 0, 1, <<>>)

\* run_preprocessing lines 108-111: {seg['id']: f"{first}-{last}" for seg in merged}
RangeStr(seg) ==
    IntStr(seg.mini_segments_used[1]) \o <<"-">>
        \o IntStr(seg.mini_segments_used[Len(seg.mini_segments_used)])

\* the mapping built from the segments after the first one only
MappingOf_SkipsFirst(segs) ==
    [id \in {segs[k].id : k \in 2..Len(segs)} |->
        LET last == CHOOSE k \in 2..Len(segs) :
                        segs[k].id = id /\ \A j \in (k + 1)..Len(segs) : segs[j].id # id
        IN  RangeStr(segs[last])]

MappingOf(segs) ==
    [id \in {segs[k].id : k \in 1..Len(segs)} |->
        LET last == CHOOSE k \in 1..Len(segs) :
                        segs[k].id = id /\ \A j \in (k + 1)..Len(segs) : segs[j].id # id
        IN  RangeStr(segs[last])]


(***************************************************************************)
(* The oracle's answer to one cleansing prompt                             *)
(***************************************************************************)
\* A decoded JSON element of the cleansing answer.
\*   dict       it is a JSON object
\*   idt        type of its 'id' value: "absent", "str", "list" (unhashable)
\*   id         the id's characters (str ids)
\*   has_reason / reason   its 'reason' value, if any
CItem(dict, idt, id, has_reason, reason) ==
    [dict |-> dict, idt |-> idt, id |-> id, has_reason |-> has_reason, reason |-> reason]

Placeholder == "No specific reason provided by LLM"

CleanElems ==
    {CItem(TRUE, "str", SegId(1), TRUE, "a"),
     CItem(TRUE, "str", SegId(1), TRUE, "b"),
     CItem(TRUE, "str", SegId(2), FALSE, ""),
     CItem(TRUE, "str", SegId(10), TRUE, "a"),
     CItem(TRUE, "str", <<"x">>, TRUE, "a"),
     CItem(TRUE, "str", <<"s", "e", "g", "_", "x">>, TRUE, "a"),
     CItem(TRUE, "list", <<>>, TRUE, "a"),
     CItem(TRUE, "absent", <<>>, TRUE, "a"),
     CItem(FALSE, "absent", <<>>, FALSE, "")}

CleanResps ==
    FailedResps \cup {Resp("json", it) : it \in SeqUpTo(CleanElems, MaxResp)}

\* A removal object as kept by the pipeline: the id (with its type) and the reason.
Removal(idt, id, reason) == [idt |-> idt, id |-> id, reason |-> reason]

RECURSIVE ValidItems(_)
ValidItems(items) ==
    IF Len(items) = 0 THEN <<>>
    ELSE LET item == items[1]
         IN  IF item.dict /\ item.idt # "absent"
             THEN <<Removal(item.idt, item.id,
                            IF item.has_reason THEN item.reason ELSE Placeholder)>>
                      \o ValidItems(Tail(items))
             ELSE ValidItems(Tail(items))

\* an answer that does not decode asks for the removal of seg_1
call_llm_for_cleansing_BadJsonRemovesFirst(resp) ==
    IF resp.kind = "badjson" THEN <<Removal("str", SegId(1), Placeholder)>>
    ELSE IF resp.kind # "json" THEN <<>> ELSE ValidItems(resp.items)

call_llm_for_cleansing(resp) ==
    IF resp.kind # "json" THEN <<>> ELSE ValidItems(resp.items)

(***************************************************************************)
(* run_batched_llm_cleansing: merging one batch, the final sort            *)
(***************************************************************************)
\* the key under which an id is held in seen_ids / ids_to_remove
IdKey(r) == <<r.idt, r.id>>

\* last-wins: a later record for a seen id replaces the earlier one
RECURSIVE MergeBatch_LastWins(_, _)
MergeBatch_LastWins(acc, items) ==
    IF Len(items) = 0 \/ acc.raised THEN acc
    ELSE LET item == items[1]
         IN  IF item.idt = "list"
             THEN [acc EXCEPT !.raised = TRUE]
             ELSE IF IdKey(item) \in acc.seen
             THEN MergeBatch_LastWins(
                      [acc EXCEPT !.objs = [k \in 1..Len(acc.objs) |->
                          IF IdKey(acc.objs[k]) = IdKey(item) THEN item ELSE acc.objs[k]]],
                      Tail(items))
             ELSE MergeBatch_LastWins([objs |-> Append(acc.objs, item),
                                       seen |-> acc.seen \cup {IdKey(item)},
                                       raised |-> FALSE], Tail(items))

\* seen_ids is not consulted: every record is appended
RECURSIVE MergeBatch_NoSeen(_, _)
MergeBatch_NoSeen(acc, items) ==
    IF Len(items) = 0 \/ acc.raised THEN acc
    ELSE IF items[1].idt = "list" THEN [acc EXCEPT !.raised = TRUE]
    ELSE MergeBatch_NoSeen([objs |-> Append(acc.objs, items[1]),
                            seen |-> acc.seen \cup {IdKey(items[1])},
                            raised |-> FALSE], Tail(items))

\* each batch's records replace the accumulated ones instead of extending them
MergeBatch_Reset(acc, items) ==
    IF Len(items) = 0 THEN acc
    ELSE MergeBatch_NoSeen([objs |-> <<>>, seen |-> {}, raised |-> acc.raised], items)

\* `item['id'] not in seen_ids` raises TypeError on an unhashable id
RECURSIVE MergeBatch(_, _)
MergeBatch(acc, items) ==
    IF Len(items) = 0 \/ acc.raised THEN acc
    ELSE LET item == items[1]
         IN  IF item.idt = "list"
             THEN [acc EXCEPT !.raised = TRUE]
             ELSE IF IdKey(item) \in acc.seen
             THEN MergeBatch(acc, Tail(items))
             ELSE MergeBatch([objs |-> Append(acc.objs, item),
                              seen |-> acc.seen \cup {IdKey(item)},
                              raised |-> FALSE], Tail(items))

HasChar(s, c) == \E k \in 1..Len(s) : s[k] = c

\* the sort key raises: '_' in <non-str> (TypeError) or int() of a non-number
\* (ValueError)
KeyRaises(r) ==
    \/ r.idt # "str"
    \/ HasChar(r.id, "_") /\ ~IntParses(Split(r.id, "_")[2])

\* int(x['id'].split('_')[1]) if '_' in x['id'] else 0
SortKey(r) == IF HasChar(r.id, "_") THEN ParseInt(Split(r.id, "_")[2]) ELSE 0

\* stable insertion of r into a list sorted by key
RECURSIVE InsertByKey(_, _)
InsertByKey(sorted, r) ==
    IF Len(sorted) = 0 THEN <<r>>
    ELSE IF SortKey(sorted[Len(sorted)]) <= SortKey(r) THEN Append(sorted, r)
    ELSE Append(InsertByKey(SubSeq(sorted, 1, Len(sorted) - 1), r), sorted[Len(sorted)])

RECURSIVE StableSort(_)
StableSort(objs) ==
    IF Len(objs) = 0 THEN <<>>
    ELSE InsertByKey(StableSort(SubSeq(objs, 1, Len(objs) - 1)), objs[Len(objs)])

\* lines 249-253: try: sort(key=...) except: pass
SortRemovals(objs) ==
    IF \E k \in 1..Len(objs) : KeyRaises(objs[k]) THEN objs ELSE StableSort(objs)

(***************************************************************************)
(* filter_and_save_cleansed                                                *)
(***************************************************************************)
IdsToRemove(removal) == {IdKey(removal[k]) : k \in 1..Len(removal)}

\* `in` instead of `not in`
Keeps_Inverted(seg, ids_to_remove) == <<"str", seg.id>> \in ids_to_remove

Keeps(seg, ids_to_remove) == <<"str", seg.id>> \notin ids_to_remove

RECURSIVE FilterLoop(_, _)
FilterLoop(segs, ids_to_remove) ==
    IF Len(segs) = 0 THEN <<>>
    ELSE IF Keeps(segs[1], ids_to_remove)
         THEN <<segs[1]>> \o FilterLoop(Tail(segs), ids_to_remove)
         ELSE FilterLoop(Tail(segs), ids_to_remove)

filter_cleansed(input_segments, removal) ==
    FilterLoop(input_segments, IdsToRemove(removal))


(***************************************************************************)
(* Artifacts                                                               *)
(***************************************************************************)
F1 == "1-mini_segments_with_ids.json"
F2 == "2-merged_input_segments.json"
F2a == "2a-merged_input_mapping.json"
FRemoved == "removed_segments.json"
F2b == "2b-merged_input_segments_cleared.json"
F4 == "4-conceptual_merges.json"
F5 == "5-final_results.json"
F6 == "6-final_results_mapped.json"

NoFiles == [n \in {} |-> <<>>]

\* save_json(data, path)
save_json(fs, name, data) ==
    [n \in DOMAIN fs \cup {name} |-> IF n = name THEN data ELSE fs[n]]

(***************************************************************************)
(* process_session_pipeline: the job_status values it writes               *)
(***************************************************************************)
StatusMaxLen == 49

StatusDownloading == <<"P", "r", "o", "c", "e", "s", "s", "i", "n", "g", ":", " ", "D", "o", "w", "n", "l", "o", "a", "d", "i", "n", "g">>
StatusTranscribing == <<"P", "r", "o", "c", "e", "s", "s", "i", "n", "g", ":", " ", "T", "r", "a", "n", "s", "c", "r", "i", "b", "i", "n", "g">>
StatusAnalyzing == <<"P", "r", "o", "c", "e", "s", "s", "i", "n", "g", ":", " ", "A", "n", "a", "l", "y", "z", "i", "n", "g">>
StatusFinished == <<"F", "i", "n", "i", "s", "h", "e", "d">>
StatusNoResults == <<"F", "a", "i", "l", "e", "d", ":", " ", "N", "o", " ", "R", "e", "s", "u", "l", "t", "s">>
PreprocessingFailed == <<"P", "r", "e", "p", "r", "o", "c", "e", "s", "s", "i", "n", "g", " ", "f", "a", "i", "l", "e", "d">>
CrewAIFailed == <<"C", "r", "e", "w", "A", "I", " ", "f", "a", "i", "l", "e", "d">>
PostprocessingFailed == <<"P", "o", "s", "t", "p", "r", "o", "c", "e", "s", "s", "i", "n", "g", " ", "f", "a", "i", "l", "e", "d">>

\* the message alone cut to 49 characters, the prefix put in front afterwards
FailedStatus_CutsMessageOnly(msg) ==
    <<"F", "a", "i", "l", "e", "d", ":", " ">> \o Slice(msg, 0, StatusMaxLen)

\* f"Failed: {str(e)}"[:49]
FailedStatus(msg) == Slice(<<"F", "a", "i", "l", "e", "d", ":", " ">> \o msg, 0, StatusMaxLen)

\* the statuses written before run_preprocessing is called (lines 56-95)
ProcessingWrites == <<StatusDownloading, StatusTranscribing, StatusAnalyzing>>

\* the stage function runs inside process_session_pipeline
InTask == Len(status_writes) > 0

\* what the oracle answers to a segmentation prompt inside a whole run of
\* process_session_pipeline: no list at all, or a break after line 0
TaskSegResps == {Resp("prose", <<>>), Resp("json", <<JInt(0)>>)}

\* what it answers to a cleansing prompt there: nothing, the removal of seg_1,
\* or an object whose id is a list
TaskCleanResps ==
    {Resp("none", <<>>),
     Resp("json", <<CItem(TRUE, "str", SegId(1), TRUE, "a")>>),
     Resp("json", <<CItem(TRUE, "list", <<>>, TRUE, "a")>>)}

SegOracle(total) == IF InTask THEN TaskSegResps ELSE SegResps(total)
CleanOracle == IF InTask THEN TaskCleanResps ELSE CleanResps

\* get_llm_response_content has not returned (or was not called)
NotReturned == [t |-> "pending", v |-> <<>>]

\* str(e) of the exception a stage function lets through (none: <<>>)
NoException == <<>>
UnhashableList == <<"u", "n", "h", "a", "s", "h", "a", "b", "l", "e", " ", "t", "y", "p", "e", ":", " ", "'", "l", "i", "s", "t", "'">>

\* one entry of prompt_log: the stage asking and the chunk of its list it sent
Prompt(stage, batch) == [stage |-> stage, batch |-> batch]

\* one entry of stage_trace: a stage function returned res, or raised exc
StageReturn(stage, res, exc) == [stage |-> stage, result |-> res, exc |-> exc]

\* run_preprocessing has returned in this step, or is still running. Inside
\* process_session_pipeline (tasks.py lines 97-104 and 150-160) a False or an
\* exception ends the run with a "Failed: ..." status, a True leads to the
\* call of run_crewai_pipeline.
TracePreprocessing ==
    /\ stage_trace' =
          IF pc' = "crew"
          THEN Append(stage_trace,
                      StageReturn("run_preprocessing", "True", NoException))
          ELSE IF pc' = "done"
          THEN Append(stage_trace,
                      StageReturn("run_preprocessing", result',
                                  IF result' = "raised" THEN UnhashableList
                                  ELSE NoException))
          ELSE stage_trace
    /\ status_writes' =
          IF InTask /\ pc' = "done"
          THEN Append(status_writes,
                      FailedStatus(IF result' = "raised" THEN UnhashableList
                                   ELSE PreprocessingFailed))
          ELSE status_writes

(***************************************************************************)
(* run_preprocessing as a state machine: one step per oracle call          *)
(***************************************************************************)
Init ==
    /\ ServiceIdle
    /\ prompt_log = <<>>
    /\ pc = "start"
    /\ mini_segments = <<>>
    /\ num_batches = 1
    /\ batch_i = 0
    /\ all_break_points = <<>>
    /\ chunk_breaks = <<>>
    /\ break_points = <<>>
    /\ merged_segments = <<>>
    /\ all_removal_objects = <<>>
    /\ seen_ids = {}
    /\ batch_removals = <<>>
    /\ removal_data = <<>>
    /\ files = NoFiles
    /\ result = "none"
    /\ oracle_log = <<>>
    /\ crew_raw = <<>>
    /\ llm_return = NotReturned
    /\ status_writes = <<>>
    /\ stage_trace = <<>>

\* The rest of run_preprocessing once run_batched_llm_cleansing has the merged
\* removal objects objs: final sort, removed_segments.json, filter, return True.
FinishCleansing(fs, segs, objs) ==
    /\ removal_data' = SortRemovals(objs)
    /\ files' = save_json(save_json(fs, FRemoved, removal_data'),
                          F2b, filter_cleansed(segs, removal_data'))
    /\ result' = IF InTask THEN "none" ELSE "True"
    /\ pc' = IF InTask THEN "crew" ELSE "done"

\* the planner asking the oracle even about an empty transcript
PlanEmptyWithoutCall_Never(total) == FALSE

\* get_batched_segmentation_plan lines 138-140: nothing to plan, [] at once
PlanEmptyWithoutCall(total) == total = 0

\* run_preprocessing lines 76-95 up to the first oracle call: load the
\* transcript (ok = FALSE: load_json returned None), number the lines, save them.
StartPreprocessing ==
    /\ UNCHANGED serviceVars
    /\ UNCHANGED prompt_log
    /\ pc = "start"
    /\ \E ok \in BOOLEAN, n \in 0..MaxUnits, nb \in 1..MaxBatches :
         IF ~ok
         THEN /\ pc' = "done"
              /\ result' = "False"
              /\ UNCHANGED <<mini_segments, num_batches, files>>
         ELSE /\ mini_segments' = WithIds(FixedTranscript(n))
              /\ num_batches' = nb
              /\ files' = save_json(files, F1, mini_segments')
              /\ IF PlanEmptyWithoutCall(n)
                 THEN pc' = "done" /\ result' = "False"
                 ELSE pc' = "segmentation" /\ result' = "none"
    /\ UNCHANGED <<batch_i, all_break_points, chunk_breaks, break_points,
                   merged_segments, all_removal_objects, seen_ids, batch_removals,
                   removal_data, oracle_log, crew_raw, llm_return>>
    /\ TracePreprocessing

\* One iteration of the loop of get_batched_segmentation_plan: the oracle answers
\* the prompt of chunk batch_i. After the last chunk: lines 156-160, then
\* run_preprocessing lines 96-118 up to the first cleansing prompt.
SegBatch ==
    /\ UNCHANGED serviceVars
    /\ pc = "segmentation"
    /\ \E resp \in SegOracle(Len(mini_segments)) :
         LET total == Len(mini_segments)
             batch_breaks == call_llm_for_segmentation(resp)
             acc == all_break_points \o batch_breaks
         IN  /\ all_break_points' = acc
             /\ chunk_breaks' = Append(chunk_breaks, batch_breaks)
             /\ oracle_log' = Append(oracle_log, resp.kind)
             /\ prompt_log' = Append(prompt_log,
                                     Prompt("segmentation",
                                            CurrentBatch(mini_segments, batch_i, num_batches)))
             /\ IF LoopRuns(batch_i + 1, total, num_batches)
                THEN /\ batch_i' = batch_i + 1
                     /\ pc' = "segmentation"
                     /\ UNCHANGED <<break_points, merged_segments, files, result,
                                    removal_data>>
                ELSE /\ break_points' = FinalizeBreaks(acc, total)
                     /\ batch_i' = 0
                     /\ IF Len(break_points') = 0
                        THEN /\ pc' = "done"
                             /\ result' = "False"
                             /\ UNCHANGED <<merged_segments, files, removal_data>>
                        ELSE /\ merged_segments' =
                                    execute_merge_plan(mini_segments, break_points')
                             /\ LET fs == save_json(save_json(files, F2, merged_segments'),
                                                    F2a, MappingOf(merged_segments'))
                                IN  IF Len(merged_segments') = 0
                                    THEN FinishCleansing(fs, merged_segments', <<>>)
                                    ELSE /\ files' = fs
                                         /\ pc' = "cleansing"
                                         /\ result' = "none"
                                         /\ UNCHANGED removal_data
    /\ UNCHANGED <<mini_segments, num_batches, all_removal_objects, seen_ids,
                   batch_removals, crew_raw, llm_return>>
    /\ TracePreprocessing

\* One iteration of the loop of run_batched_llm_cleansing: the oracle answers the
\* prompt of batch batch_i. After the last batch: the sort, then run_preprocessing
\* lines 119-134.
CleanBatch ==
    /\ UNCHANGED serviceVars
    /\ pc = "cleansing"
    /\ \E resp \in CleanOracle :
         LET batch_removal_data == call_llm_for_cleansing(resp)
             acc == MergeBatch([objs |-> all_removal_objects, seen |-> seen_ids,
                                raised |-> FALSE], batch_removal_data)
         IN  /\ batch_removals' = Append(batch_removals, batch_removal_data)
             /\ oracle_log' = Append(oracle_log, resp.kind)
             /\ prompt_log' = Append(prompt_log,
                                     Prompt("cleansing",
                                            CurrentBatch(merged_segments, batch_i, num_batches)))
             /\ IF acc.raised
                THEN /\ pc' = "done"
                     /\ result' = "raised"
                     /\ UNCHANGED <<batch_i, all_removal_objects, seen_ids,
                                    removal_data, files>>
                ELSE /\ all_removal_objects' = acc.objs
                     /\ seen_ids' = acc.seen
                     /\ IF LoopRuns(batch_i + 1, Len(merged_segments), num_batches)
                        THEN /\ batch_i' = batch_i + 1
                             /\ UNCHANGED <<pc, result, removal_data, files>>
                        ELSE /\ batch_i' = 0
                             /\ FinishCleansing(files, merged_segments, acc.objs)
    /\ UNCHANGED <<mini_segments, num_batches, all_break_points, chunk_breaks,
                   break_points, merged_segments, crew_raw, llm_return>>
    /\ TracePreprocessing

(***************************************************************************)
(* Specifications                                                          *)
(***************************************************************************)
\* Segmentation and merge: run_preprocessing up to the first cleansing prompt.
NextSeg == StartPreprocessing \/ SegBatch

SpecSeg == Init /\ [][NextSeg]_vars

\* Cleansing and filter: run_preprocessing from the first cleansing prompt, over
\* every merged list the planner and merger can deliver for the bounded inputs.
InitClean ==
    /\ ServiceIdle
    /\ prompt_log = <<>>
    /\ pc = "cleansing"
    /\ \E n \in 1..MaxUnits, nb \in 1..MaxBatches :
         \E bps \in {FinalizeBreaks(x, n) : x \in SeqUpTo(0..n, MaxResp)} :
            /\ mini_segments = WithIds(FixedTranscript(n))
            /\ num_batches = nb
            /\ all_break_points = bps
            /\ chunk_breaks = <<bps>>
            /\ break_points = bps
            /\ merged_segments = execute_merge_plan(mini_segments, bps)
            /\ files = save_json(save_json(save_json(NoFiles, F1, mini_segments),
                                           F2, merged_segments),
                                 F2a, MappingOf(merged_segments))
    /\ batch_i = 0
    /\ all_removal_objects = <<>>
    /\ seen_ids = {}
    /\ batch_removals = <<>>
    /\ removal_data = <<>>
    /\ result = "none"
    /\ oracle_log = <<>>
    /\ crew_raw = <<>>
    /\ llm_return = NotReturned
    /\ status_writes = <<>>
    /\ stage_trace = <<>>

NextClean == CleanBatch

SpecClean == InitClean /\ [][NextClean]_vars

\* execute_merge_plan alone, over arbitrary breakpoint lists.
InitMerge ==
    /\ ServiceIdle
    /\ prompt_log = <<>>
    /\ pc = "merge"
    /\ \/ \E n \in 1..MaxUnits :
            /\ mini_segments \in {WithIds(t) : t \in Transcripts(n)}
            /\ break_points \in SeqUpTo(0..(n + 1), MaxBreaks)
       \/ /\ mini_segments = WithIds(FixedTranscript(12))
          /\ break_points = <<4, 11>>
    /\ num_batches = 1
    /\ batch_i = 0
    /\ all_break_points = <<>>
    /\ chunk_breaks = <<>>
    /\ merged_segments = <<>>
    /\ all_removal_objects = <<>>
    /\ seen_ids = {}
    /\ batch_removals = <<>>
    /\ removal_data = <<>>
    /\ files = NoFiles
    /\ result = "none"
    /\ oracle_log = <<>>
    /\ crew_raw = <<>>
    /\ llm_return = NotReturned
    /\ status_writes = <<>>
    /\ stage_trace = <<>>

MergeStep ==
    /\ UNCHANGED serviceVars
    /\ UNCHANGED prompt_log
    /\ pc = "merge"
    /\ merged_segments' = execute_merge_plan(mini_segments, break_points)
    /\ files' = save_json(save_json(files, F2, merged_segments'),
                          F2a, MappingOf(merged_segments'))
    /\ pc' = "merged"
    /\ UNCHANGED <<mini_segments, num_batches, batch_i, all_break_points,
                   chunk_breaks, break_points, all_removal_objects, seen_ids,
                   batch_removals, removal_data, result, oracle_log, crew_raw,
                   llm_return, status_writes, stage_trace>>

NextMerge == MergeStep

SpecMerge == InitMerge /\ [][NextMerge]_vars


(***************************************************************************)
(* Properties                                                              *)
(***************************************************************************)
RECURSIVE Flatten(_)
Flatten(seqs) == IF Len(seqs) = 0 THEN <<>> ELSE seqs[1] \o Flatten(Tail(seqs))

Perms(n) == {p \in [1..n -> 1..n] : \A a, b \in 1..n : p[a] = p[b] => a = b}

Permuted(seqs, p) == [k \in 1..Len(seqs) |-> seqs[p[k]]]

StrictlyAscending(xs) == \A k \in 1..(Len(xs) - 1) : xs[k] < xs[k + 1]

MaxOf(S) == CHOOSE x \in S : \A y \in S : y <= x

TotalUnits == Len(mini_segments)

\* get_batched_segmentation_plan has returned its (non-empty) plan
PlanReturned == pc = "cleansing" /\ Len(chunk_breaks) > 0 /\ all_break_points = Flatten(chunk_breaks)

OracleIds == Range(Flatten(chunk_breaks))

\* C1 as stated: whatever the oracle answers per chunk, the breakpoint list
\* returned by get_batched_segmentation_plan is sorted ascending, has no
\* duplicates, and its maximum equals total_units - 1.
C1_MaxIsLastId ==
    PlanReturned =>
        /\ StrictlyAscending(break_points)
        /\ break_points[Len(break_points)] = TotalUnits - 1

\* C1 amended: the breakpoint list is sorted ascending and has no duplicates, and
\* its maximum is the larger of total_units - 1 and the largest id the oracle
\* returned (so it equals total_units - 1 exactly when no returned id lies beyond
\* the end of the transcript).
C1_SortedUniqueCovering ==
    PlanReturned =>
        /\ Len(break_points) > 0
        /\ StrictlyAscending(break_points)
        /\ break_points[Len(break_points)] = MaxOf(OracleIds \cup {TotalUnits - 1})
        /\ Range(break_points) = OracleIds \cup {break_points[Len(break_points)]}

\* C1 witness: two chunks answered, one with nothing usable, one with a
\* duplicate-carrying out-of-order answer inside the transcript.
C1_Witness ==
    /\ PlanReturned
    /\ Len(chunk_breaks) >= 2
    /\ \E a, b \in 1..Len(chunk_breaks) :
          /\ chunk_breaks[a] = <<>>
          /\ Len(chunk_breaks[b]) = 2
          /\ chunk_breaks[b][1] >= chunk_breaks[b][2]
    /\ \A x \in OracleIds : x <= TotalUnits - 1

UsedLists == [k \in 1..Len(merged_segments) |-> merged_segments[k].mini_segments_used]

Contiguous(xs) == Len(xs) > 0 /\ \A k \in 1..(Len(xs) - 1) : xs[k + 1] = xs[k] + 1

AllIds == [k \in 1..TotalUnits |-> k - 1]

\* C2: the BigSegments merged from the planner's breakpoints are contiguous runs
\* of mini_ids, every MiniUnit lies in exactly one of them, and taken in list
\* order they do not overlap and cover 0..total-1.
C2_PlannedSegmentsPartition ==
    PlanReturned =>
        /\ \A k \in 1..Len(merged_segments) : Contiguous(UsedLists[k])
        /\ \A u \in 0..(TotalUnits - 1) :
              Cardinality({k \in 1..Len(merged_segments) : u \in Range(UsedLists[k])}) = 1
        /\ Flatten(UsedLists) = AllIds

\* C2 witness: a plan with an id beyond the end of the transcript still yields
\* several segments.
C2_Witness ==
    /\ PlanReturned
    /\ Len(merged_segments) >= 2
    /\ \E x \in OracleIds : x > TotalUnits - 1

\* execute_merge_plan has run on the given breakpoints
Merged == pc = "merged"

WellFormedBreaks ==
    /\ Len(break_points) > 0
    /\ StrictlyAscending(break_points)
    /\ break_points[Len(break_points)] = TotalUnits - 1

IdRun(a, b) == [k \in 1..(b - a + 1) |-> a + k - 1]

\* C3: for a sorted, duplicate-free breakpoint list with maximum total_units - 1
\* execute_merge_plan emits one BigSegment per breakpoint, the k-th spanning
\* (previous breakpoint + 1, or 0) .. k-th breakpoint, so the used ids are
\* range(total_units) without gap or overlap.
C3_OneSegmentPerBreakpoint ==
    (Merged /\ WellFormedBreaks) =>
        /\ Len(merged_segments) = Len(break_points)
        /\ \A k \in 1..Len(break_points) :
              UsedLists[k] = IdRun(IF k = 1 THEN 0 ELSE break_points[k - 1] + 1,
                                   break_points[k])
        /\ Flatten(UsedLists) = AllIds

\* C3 witness: 12 units with breakpoints [4, 11] give seg_1 = 0..4, seg_2 = 5..11.
C3_Witness ==
    /\ Merged
    /\ TotalUnits = 12
    /\ break_points = <<4, 11>>
    /\ Len(merged_segments) = 2
    /\ UsedLists[1] = <<0, 1, 2, 3, 4>>
    /\ UsedLists[2] = <<5, 6, 7, 8, 9, 10, 11>>

UnitTexts(ids) == [k \in 1..Len(ids) |-> mini_segments[ids[k] + 1].text]

\* C4: every emitted BigSegment has the single-space join of its constituents'
\* texts, the start of its first and the end of its last constituent; when the
\* segments cover the transcript, the single-space join of their texts is the
\* single-space join of all MiniUnit texts.
C4_TextAndTimes ==
    Merged =>
        /\ \A k \in 1..Len(merged_segments) :
              LET seg == merged_segments[k]
                  used == seg.mini_segments_used
              IN  /\ seg.text = Join(<<" ">>, UnitTexts(used))
                  /\ seg.start = mini_segments[used[1] + 1].start_second
                  /\ seg.end = mini_segments[used[Len(used)] + 1].end_second
        /\ (Flatten(UsedLists) = AllIds =>
               Join(<<" ">>, [k \in 1..Len(merged_segments) |-> merged_segments[k].text])
                   = Join(<<" ">>, UnitTexts(AllIds)))

\* C4 witness: a covering merge into two segments, one of several units, with an
\* empty text among the constituents.
C4_Witness ==
    /\ Merged
    /\ Flatten(UsedLists) = AllIds
    /\ Len(merged_segments) = 2
    /\ Len(UsedLists[1]) = 2
    /\ mini_segments[1].text = <<>>
    /\ mini_segments[2].text = <<"b", " ", "c">>

\* C5: for any breakpoint list the emitted BigSegments carry the ids seg_1, seg_2,
\* ..., seg_k in emission order, without gap or repetition, and the derived
\* id -> "first-last" mapping has exactly one entry per BigSegment.
C5_SequentialIds ==
    Merged =>
        /\ \A k \in 1..Len(merged_segments) :
              merged_segments[k].id = <<"s", "e", "g", "_">> \o IntStr(k)
        /\ \A a, b \in 1..Len(merged_segments) :
              merged_segments[a].id = merged_segments[b].id => a = b
        /\ Cardinality(DOMAIN files[F2a]) = Len(merged_segments)
        /\ \A k \in 1..Len(merged_segments) :
              files[F2a][merged_segments[k].id] = RangeStr(merged_segments[k])

\* C5 witness: an out-of-range breakpoint produced an empty, skipped slice between
\* two emitted segments' worth of breakpoints.
C5_Witness ==
    /\ Merged
    /\ Len(break_points) = 3
    /\ break_points[1] >= TotalUnits - 1
    /\ Len(merged_segments) = 2


\* run_preprocessing returned True
PreprocessingDone == pc = "done" /\ result = "True" /\ F2b \in DOMAIN files

Reported == Flatten(batch_removals)

FirstReport(key) ==
    CHOOSE k \in 1..Len(Reported) :
        IdKey(Reported[k]) = key /\ \A j \in 1..(k - 1) : IdKey(Reported[j]) # key

\* C6: deduplication of removal records is first-wins: an id reported more than
\* once (by several batches or twice in one batch) has exactly one record in the
\* merged list, carrying the reason of its first occurrence in batch order.
C6_FirstWins ==
    PreprocessingDone =>
        /\ \A k \in 1..Len(Reported) :
              LET key == IdKey(Reported[k])
                  hits == {j \in 1..Len(removal_data) : IdKey(removal_data[j]) = key}
              IN  /\ Cardinality(hits) = 1
                  /\ \A j \in hits : removal_data[j].reason = Reported[FirstReport(key)].reason
        /\ \A j \in 1..Len(removal_data) :
              \E k \in 1..Len(Reported) : IdKey(Reported[k]) = IdKey(removal_data[j])

\* C6 witness: an earlier and a later batch report the same id with different
\* reasons.
C6_Witness ==
    /\ PreprocessingDone
    /\ \E a, b \in 1..Len(batch_removals) :
          /\ a < b
          /\ \E x \in 1..Len(batch_removals[a]), y \in 1..Len(batch_removals[b]) :
                /\ IdKey(batch_removals[a][x]) = IdKey(batch_removals[b][y])
                /\ batch_removals[a][x].reason # batch_removals[b][y].reason

\* run_batched_llm_cleansing over the given per-batch oracle results, in the
\* given order
RECURSIVE MergeBatches(_, _)
MergeBatches(acc, batches) ==
    IF Len(batches) = 0 THEN acc
    ELSE MergeBatches(MergeBatch(acc, batches[1]), Tail(batches))

CleansingOf(batches) ==
    SortRemovals(MergeBatches([objs |-> <<>>, seen |-> {}, raised |-> FALSE], batches).objs)

\* C7 as stated: merging the same per-batch results in any order yields the same
\* set of RemovalRecords (id with reason) and the same filtered BigSegment list.
C7_SameRecordsAnyOrder ==
    PreprocessingDone =>
        \A p \in Perms(Len(batch_removals)) :
            LET other == CleansingOf(Permuted(batch_removals, p))
            IN  /\ Range(other) = Range(removal_data)
                /\ filter_cleansed(merged_segments, other) = files[F2b]

\* C7 amended: merging the same per-batch results in any order yields the same
\* set of removed ids and the same filtered BigSegment list; the reason recorded
\* for an id reported by several batches is that of the batch merged first.
C7_SameIdsAnyOrder ==
    PreprocessingDone =>
        \A p \in Perms(Len(batch_removals)) :
            LET other == CleansingOf(Permuted(batch_removals, p))
            IN  /\ IdsToRemove(other) = IdsToRemove(removal_data)
                /\ Len(other) = Len(removal_data)
                /\ filter_cleansed(merged_segments, other) = files[F2b]
                /\ \A j \in 1..Len(other) :
                      \E k \in 1..Len(Reported) :
                          /\ IdKey(Reported[k]) = IdKey(other[j])
                          /\ Reported[k].reason = other[j].reason

\* C7 witness: three batches, each reporting something, two of them the same
\* existing segment, and a segment is filtered out.
C7_Witness ==
    /\ PreprocessingDone
    /\ Len(batch_removals) = 3
    /\ \A b \in 1..3 : Len(batch_removals[b]) > 0
    /\ IdKey(batch_removals[1][1]) = IdKey(batch_removals[3][1])
    /\ IdKey(batch_removals[1][1]) # IdKey(batch_removals[2][1])
    /\ Len(files[F2b]) < Len(merged_segments)

\* C8: the final breakpoint list does not depend on the order in which the
\* chunks' results are produced and accumulated.
C8_PlanOrderIndependent ==
    PlanReturned =>
        \A p \in Perms(Len(chunk_breaks)) :
            FinalizeBreaks(Flatten(Permuted(chunk_breaks, p)), TotalUnits) = break_points

\* C8 witness: three chunks with different non-empty answers, accumulated out of
\* ascending order.
C8_Witness ==
    /\ PlanReturned
    /\ Len(chunk_breaks) = 3
    /\ \A c \in 1..3 : Len(chunk_breaks[c]) > 0
    /\ chunk_breaks[1][1] > chunk_breaks[2][1]
    /\ chunk_breaks[2][1] > chunk_breaks[3][1]

RemovedStrIds ==
    {removal_data[j].id : j \in {i \in 1..Len(removal_data) : removal_data[i].idt = "str"}}

KeptPositions == {k \in 1..Len(merged_segments) : merged_segments[k].id \notin RemovedStrIds}

\* C9: the cleansed list holds exactly the input BigSegments whose id is not in
\* the removal list, unmodified and in their original relative order; removal
\* ids that match no segment have no effect.
C9_FilterKeepsOthersInOrder ==
    PreprocessingDone =>
        LET out == files[F2b]
        IN  /\ Len(out) = Cardinality(KeptPositions)
            /\ \A i \in 1..Len(out) :
                  \E k \in KeptPositions :
                      /\ Cardinality({j \in KeptPositions : j < k}) = i - 1
                      /\ out[i] = merged_segments[k]

\* C9 witness: input [seg_1, seg_2, seg_3], removal of seg_2 and of an id that
\* matches no segment, output [seg_1, seg_3].
C9_Witness ==
    /\ PreprocessingDone
    /\ Len(merged_segments) = 3
    /\ RemovedStrIds = {<<"s", "e", "g", "_", "2">>, <<"s", "e", "g", "_", "1", "0">>}
    /\ files[F2b] = <<merged_segments[1], merged_segments[3]>>


(***************************************************************************)
(* run_postprocessing                                                      *)
(***************************************************************************)
MaxClips == 2
MaxUsed == 2

UnknownRange == <<"U", "N", "K", "N", "O", "W", "N", "_", "R", "A", "N", "G", "E">>

\* a resolved timestamp {'start': s, 'end': e}, or the str "UNKNOWN_TIMESTAMP"
Timestamp(seg) == [t |-> "dict", start |-> seg.start, end |-> seg.end]
UnknownTimestamp == [t |-> "UNKNOWN_TIMESTAMP", start |-> 0, end |-> 0]

\* A ConceptClip as decoded from 5-final_results.json. has_used = FALSE: the
\* object has no 'big_segments_used' key.
Clip(title, has_used, used) ==
    [vid_title |-> title, has_used |-> has_used, big_segments_used |-> used,
     has_times |-> FALSE, start |-> 0, end |-> 0]

\* A ConceptClip that also carries the 'start' and 'end' the crew is asked for
\* (lines 405-406: the start of the first segment used, the end of the last).
TimedClip(title, used, start, end) ==
    [vid_title |-> title, has_used |-> TRUE, big_segments_used |-> used,
     has_times |-> TRUE, start |-> start, end |-> end]

\* mapping_data.get(big_id, "") : a miss yields the empty string
LookupRange_EmptyDefault(mapping_data, big_id) ==
    IF big_id \in DOMAIN mapping_data THEN mapping_data[big_id] ELSE <<>>

\* mapping_data.get(big_id, "UNKNOWN_RANGE")
LookupRange(mapping_data, big_id) ==
    IF big_id \in DOMAIN mapping_data THEN mapping_data[big_id] ELSE UnknownRange

\* segment_timestamp_map = {s['id']: {'start': .., 'end': ..} for s in mapping_time_data}
\* followed by segment_timestamp_map.get(big_id, "UNKNOWN_TIMESTAMP")
LookupTimestamp(mapping_time_data, big_id) ==
    LET hits == {k \in 1..Len(mapping_time_data) : mapping_time_data[k].id = big_id}
    IN  IF hits = {} THEN UnknownTimestamp
        ELSE Timestamp(mapping_time_data[MaxOf(hits)])

\* segment.get("big_segments_used", [])
UsedOf(segment) == IF segment.has_used THEN segment.big_segments_used ELSE <<>>

\* a timestamp is appended only when the lookup hits
MapClip_SkipMisses(segment, mapping_data, mapping_time_data) ==
    LET all_ts == [k \in 1..Len(UsedOf(segment)) |->
                      LookupTimestamp(mapping_time_data, UsedOf(segment)[k])]
    IN  [vid_title |-> segment.vid_title,
         has_used |-> segment.has_used,
         big_segments_used |-> segment.big_segments_used,
         has_times |-> segment.has_times,
         start |-> segment.start,
         end |-> segment.end,
         mapped_mini_segment_ranges |->
             [k \in 1..Len(UsedOf(segment)) |->
                 LookupRange(mapping_data, UsedOf(segment)[k])],
         source_segment_timestamps |->
             SelectSeq(all_ts, LAMBDA ts : ts.t = "dict")]

MapClip(segment, mapping_data, mapping_time_data) ==
    [vid_title |-> segment.vid_title,
     has_used |-> segment.has_used,
     big_segments_used |-> segment.big_segments_used,
     has_times |-> segment.has_times,
     start |-> segment.start,
     end |-> segment.end,
     mapped_mini_segment_ranges |->
         [k \in 1..Len(UsedOf(segment)) |-> LookupRange(mapping_data, UsedOf(segment)[k])],
     source_segment_timestamps |->
         [k \in 1..Len(UsedOf(segment)) |->
             LookupTimestamp(mapping_time_data, UsedOf(segment)[k])]]

\* load_json returned a value (the file exists and decodes)
Loaded(fs, name) == name \in DOMAIN fs

\* str(e) of the exceptions run_postprocessing lets through
NoneNotIterable == <<"'", "N", "o", "n", "e", "T", "y", "p", "e", "'", " ", "o", "b", "j", "e", "c", "t", " ", "i", "s", " ", "n", "o", "t", " ", "i", "t", "e", "r", "a", "b", "l", "e">>
NoneHasNoGet == <<"'", "N", "o", "n", "e", "T", "y", "p", "e", "'", " ", "o", "b", "j", "e", "c", "t", " ", "h", "a", "s", " ", "n", "o", " ", "a", "t", "t", "r", "i", "b", "u", "t", "e", " ", "'", "g", "e", "t", "'">>

\* what a stage function left behind: the artifacts, its return value
\* ("True", "False", or "raised" with the exception's message)
StageOutcome(fs, res, exc) == [files |-> fs, result |-> res, exc |-> exc]

\* the empty case returns True without writing the mapped artifact
run_postprocessing_NoWriteOnEmpty(fs) ==
    IF ~Loaded(fs, F5) \/ Len(fs[F5]) = 0
    THEN StageOutcome(fs, "True", NoException)
    ELSE IF ~Loaded(fs, F2)
    THEN StageOutcome(fs, "raised", NoneNotIterable)
    ELSE IF ~Loaded(fs, F2a) /\ \E k \in 1..Len(fs[F5]) : Len(UsedOf(fs[F5][k])) > 0
    THEN StageOutcome(fs, "raised", NoneHasNoGet)
    ELSE StageOutcome(save_json(fs, F6,
                         [k \in 1..Len(fs[F5]) |->
                             MapClip(fs[F5][k],
                                     IF Loaded(fs, F2a) THEN fs[F2a] ELSE NoFiles,
                                     fs[F2])]),
                      "True", NoException)

\* run_postprocessing lines 466-511 on the artifacts fs
run_postprocessing(fs) ==
    IF ~Loaded(fs, F5) \/ Len(fs[F5]) = 0
    THEN StageOutcome(save_json(fs, F6, <<>>), "True", NoException)
    ELSE IF ~Loaded(fs, F2)
    THEN StageOutcome(fs, "raised", NoneNotIterable)
    ELSE IF ~Loaded(fs, F2a) /\ \E k \in 1..Len(fs[F5]) : Len(UsedOf(fs[F5][k])) > 0
    THEN StageOutcome(fs, "raised", NoneHasNoGet)
    ELSE StageOutcome(save_json(fs, F6,
                         [k \in 1..Len(fs[F5]) |->
                             MapClip(fs[F5][k],
                                     IF Loaded(fs, F2a) THEN fs[F2a] ELSE NoFiles,
                                     fs[F2])]),
                      "True", NoException)

\* run_postprocessing called on its own
RunPostprocessing ==
    /\ UNCHANGED serviceVars
    /\ UNCHANGED prompt_log
    /\ pc = "post"
    /\ pc' = "done"
    /\ files' = run_postprocessing(files).files
    /\ result' = run_postprocessing(files).result
    /\ stage_trace' = Append(stage_trace,
                             StageReturn("run_postprocessing",
                                         run_postprocessing(files).result,
                                         run_postprocessing(files).exc))
    /\ UNCHANGED <<mini_segments, num_batches, batch_i, all_break_points,
                   chunk_breaks, break_points, merged_segments, all_removal_objects,
                   seen_ids, batch_removals, removal_data, oracle_log, crew_raw,
                   llm_return, status_writes>>

\* lst without its d-th element (d = 0: lst itself)
DropAt(lst, d) ==
    [k \in 1..(IF d \in 1..Len(lst) THEN Len(lst) - 1 ELSE Len(lst)) |->
        IF d \in 1..Len(lst) /\ k >= d THEN lst[k + 1] ELSE lst[k]]

PostClips ==
    {Clip("t", TRUE, u) : u \in SeqUpTo({SegId(1), SegId(2)}, MaxUsed)}
        \cup {Clip("t", FALSE, <<>>)}

\* the artifacts fs without the file name (load_json of it returns None)
Without(fs, name) == [n \in DOMAIN fs \ {name} |-> fs[n]]

\* The artifacts run_postprocessing finds: the merged segments and the mapping of
\* a merge of MaxUnits lines, either of them possibly stale (lacking seg_1) or
\* missing, and the final clips the oracle named, or no final artifact at all.
InitPost ==
    /\ ServiceIdle
    /\ prompt_log = <<>>
    /\ pc = "post"
    /\ mini_segments = WithIds(FixedTranscript(MaxUnits))
    /\ break_points \in {FinalizeBreaks(x, MaxUnits) : x \in SeqUpTo(0..MaxUnits, 1)}
    /\ merged_segments = execute_merge_plan(mini_segments, break_points)
    /\ \E d1, d2 \in 0..1, missing \in {"", F2, F2a} :
         LET fs == Without(save_json(save_json(NoFiles, F2, DropAt(merged_segments, d1)),
                                     F2a, MappingOf(DropAt(merged_segments, d2))),
                           missing)
         IN  \/ files = fs
             \/ \E final \in SeqUpTo(PostClips, MaxClips) :
                   files = save_json(fs, F5, final)
    /\ num_batches = 1
    /\ batch_i = 0
    /\ all_break_points = break_points
    /\ chunk_breaks = <<break_points>>
    /\ all_removal_objects = <<>>
    /\ seen_ids = {}
    /\ batch_removals = <<>>
    /\ removal_data = <<>>
    /\ result = "none"
    /\ oracle_log = <<>>
    /\ crew_raw = <<>>
    /\ llm_return = NotReturned
    /\ status_writes = <<>>
    /\ stage_trace = <<>>

NextPost == RunPostprocessing

SpecPost == InitPost /\ [][NextPost]_vars

PostDone == pc = "done" /\ Loaded(files, F5) /\ Len(files[F5]) > 0

\* range and timestamp of the segment named id in the two lookup artifacts
RangeKnown(id) == id \in DOMAIN files[F2a]
TimeKnown(id) == \E k \in 1..Len(files[F2]) : files[F2][k].id = id

\* C10: an entry whose BigSegment id is absent from the id -> range map gets
\* "UNKNOWN_RANGE" at its position (and "UNKNOWN_TIMESTAMP" when absent from the
\* timestamp lookup); run_postprocessing does not raise and reports success, and
\* every other entry of every clip is resolved to the real range and timestamps.
C10_SentinelOnMiss ==
    (PostDone /\ Loaded(files, F2) /\ Loaded(files, F2a)) =>
        /\ result = "True"
        /\ Loaded(files, F6)
        /\ Len(files[F6]) = Len(files[F5])
        /\ \A c \in 1..Len(files[F5]) :
              LET used == UsedOf(files[F5][c])
                  out == files[F6][c]
              IN  /\ Len(out.mapped_mini_segment_ranges) = Len(used)
                  /\ Len(out.source_segment_timestamps) = Len(used)
                  /\ \A k \in 1..Len(used) :
                        /\ ~RangeKnown(used[k]) =>
                              out.mapped_mini_segment_ranges[k] = UnknownRange
                        /\ RangeKnown(used[k]) =>
                              out.mapped_mini_segment_ranges[k] = files[F2a][used[k]]
                        /\ ~TimeKnown(used[k]) =>
                              out.source_segment_timestamps[k].t = "UNKNOWN_TIMESTAMP"
                        /\ TimeKnown(used[k]) =>
                              \E j \in 1..Len(files[F2]) :
                                  /\ files[F2][j].id = used[k]
                                  /\ out.source_segment_timestamps[k] =
                                         [t |-> "dict", start |-> files[F2][j].start,
                                          end |-> files[F2][j].end]

\* C10 witness: two clips; the first names an id absent from the range map next
\* to a resolvable one, the second resolves entirely.
C10_Witness ==
    /\ PostDone
    /\ result = "True"
    /\ Len(files[F6]) = 2
    /\ Len(files[F6][1].big_segments_used) = 2
    /\ files[F6][1].mapped_mini_segment_ranges[1] = UnknownRange
    /\ files[F6][1].mapped_mini_segment_ranges[2] # UnknownRange
    /\ files[F6][1].source_segment_timestamps[2].t = "dict"
    /\ Len(files[F6][2].big_segments_used) = 1
    /\ files[F6][2].mapped_mini_segment_ranges[1] # UnknownRange

\* the BigSegment the merger produced under the id big_id (0: none)
SegmentNamed(big_id) ==
    LET hits == {j \in 1..Len(merged_segments) : merged_segments[j].id = big_id}
    IN  IF hits = {} THEN 0 ELSE MaxOf(hits)

\* C11: run_postprocessing writes exactly one mapped clip per final clip, in the
\* same order; each mapped clip carries the clip's own fields unchanged, and its
\* two added lists are as long as big_segments_used and aligned with it: entry k
\* is the "first-last" MiniUnit range and the {start, end} pair of the
\* BigSegment that big_segments_used[k] names.
C11_OneMappedClipPerClipAligned ==
    (PostDone /\ Loaded(files, F2) /\ Loaded(files, F2a)) =>
        /\ Loaded(files, F6)
        /\ Len(files[F6]) = Len(files[F5])
        /\ \A c \in 1..Len(files[F5]) :
              LET clip == files[F5][c]
                  out == files[F6][c]
                  used == UsedOf(clip)
              IN  /\ out.vid_title = clip.vid_title
                  /\ out.has_used = clip.has_used
                  /\ out.big_segments_used = clip.big_segments_used
                  /\ Len(out.mapped_mini_segment_ranges) = Len(used)
                  /\ Len(out.source_segment_timestamps) = Len(used)
                  /\ \A k \in 1..Len(used) :
                        LET j == SegmentNamed(used[k])
                        IN  (j # 0 /\ RangeKnown(used[k]) /\ TimeKnown(used[k])) =>
                               LET seg == merged_segments[j]
                                   ids == seg.mini_segments_used
                               IN  /\ out.mapped_mini_segment_ranges[k] =
                                          IntStr(ids[1]) \o <<"-">> \o IntStr(ids[Len(ids)])
                                   /\ out.source_segment_timestamps[k] =
                                          [t |-> "dict", start |-> seg.start,
                                           end |-> seg.end]

\* C11 witness: two clips over a merge into seg_1 and seg_2; the first names
\* seg_2 then seg_1, the second names seg_1, and every entry is resolved, so the
\* order of the entries follows big_segments_used and not the merge order.
C11_Witness ==
    /\ PostDone
    /\ result = "True"
    /\ Len(merged_segments) = 2
    /\ Len(files[F6]) = 2
    /\ files[F6][1].big_segments_used = <<SegId(2), SegId(1)>>
    /\ files[F6][2].big_segments_used = <<SegId(1)>>
    /\ files[F6][1].mapped_mini_segment_ranges =
           <<RangeStr(merged_segments[2]), RangeStr(merged_segments[1])>>
    /\ files[F6][1].source_segment_timestamps =
           <<Timestamp(merged_segments[2]), Timestamp(merged_segments[1])>>
    /\ files[F6][2].mapped_mini_segment_ranges = <<RangeStr(merged_segments[1])>>
    /\ RangeStr(merged_segments[1]) # RangeStr(merged_segments[2])

(***************************************************************************)
(* get_llm_response_content and _call_llm_with_retry                       *)
(***************************************************************************)
\* stop_after_attempt(10)
StopAfterAttempt == 10

\* what one llm.invoke(prompt) does: raise an exception, or return a message
\* object with a content field, a plain str, or some other object
ExcKinds == {"RateLimitError", "Timeout"}
LLMTexts == {<<>>, <<"[", "0", "]">>}
Raises(exc) == [exc |-> exc, shape |-> "", text |-> <<>>]
Returns(shape, text) == [exc |-> "", shape |-> shape, text |-> text]
LLMOutcomes ==
    {Raises(e) : e \in ExcKinds}
        \cup {Returns(sh, t) : sh \in {"message", "str"}, t \in LLMTexts}
        \cup {Returns("object", <<>>)}

\* str(response) of an object that is neither a message nor a str
StrOfObject == <<"<", "o", "b", "j", "e", "c", "t", ">">>

\* lines 61-66: response.content, the str itself, or str(response)
ResponseContent(response) ==
    IF response.shape = "message" THEN response.text
    ELSE IF response.shape = "str" THEN response.text
    ELSE StrOfObject

\* retry=retry_if_exception_type(Exception)
ShouldRetry(exc) == exc \in ExcKinds

\* gives up only after the eleventh failed attempt
ShouldStop_OffByOne(attempt_number) == attempt_number > StopAfterAttempt

\* stop=stop_after_attempt(10)
ShouldStop(attempt_number) == attempt_number >= StopAfterAttempt

\* One attempt of _call_llm_with_retry inside get_llm_response_content. A failed
\* attempt is retried unless the stop condition holds; then tenacity raises
\* RetryError, which the except clause of get_llm_response_content (lines 67-70)
\* turns into None. A successful attempt ends the loop.
LLMAttempt ==
    /\ UNCHANGED serviceVars
    /\ UNCHANGED prompt_log
    /\ pc = "llm"
    /\ \E o \in LLMOutcomes :
         /\ oracle_log' = Append(oracle_log, o)
         /\ IF o.exc # ""
            THEN IF ShouldRetry(o.exc) /\ ~ShouldStop(Len(oracle_log) + 1)
                 THEN UNCHANGED <<pc, llm_return>>
                 ELSE /\ llm_return' = [t |-> "None", v |-> <<>>]
                      /\ pc' = "done"
            ELSE /\ llm_return' = [t |-> "str", v |-> ResponseContent(o)]
                 /\ pc' = "done"
    /\ UNCHANGED <<mini_segments, num_batches, batch_i, all_break_points,
                   chunk_breaks, break_points, merged_segments, all_removal_objects,
                   seen_ids, batch_removals, removal_data, files, result, crew_raw,
                   status_writes, stage_trace>>

InitLLM ==
    /\ ServiceIdle
    /\ prompt_log = <<>>
    /\ pc = "llm"
    /\ mini_segments = <<>>
    /\ num_batches = 1
    /\ batch_i = 0
    /\ all_break_points = <<>>
    /\ chunk_breaks = <<>>
    /\ break_points = <<>>
    /\ merged_segments = <<>>
    /\ all_removal_objects = <<>>
    /\ seen_ids = {}
    /\ batch_removals = <<>>
    /\ removal_data = <<>>
    /\ files = NoFiles
    /\ result = "none"
    /\ oracle_log = <<>>
    /\ crew_raw = <<>>
    /\ llm_return = NotReturned
    /\ status_writes = <<>>
    /\ stage_trace = <<>>

NextLLM == LLMAttempt

SpecLLM == InitLLM /\ [][NextLLM]_vars

\* the first n calls of the oracle all raised
AllRaised(n) == \A k \in 1..n : oracle_log[k].exc # ""

\* C13: get_llm_response_content invokes the oracle at least once and at most
\* ten times, and only after failures: it retries after every kind of
\* exception, stops at the first successful invocation and returns that
\* response's text (the content field, else the str itself), and returns None
\* exactly when all ten attempts raised. It returns a value, never an exception.
C13_RetryThenTextOrNone ==
    /\ Len(oracle_log) <= StopAfterAttempt
    /\ pc = "llm" => /\ llm_return = NotReturned
                     /\ AllRaised(Len(oracle_log))
                     /\ Len(oracle_log) < StopAfterAttempt
    /\ pc = "done" =>
          LET n == Len(oracle_log)
          IN  /\ n >= 1
              /\ AllRaised(n - 1)
              /\ llm_return.t \in {"None", "str"}
              /\ llm_return.t = "None" <=> (n = StopAfterAttempt /\ AllRaised(n))
              /\ oracle_log[n].exc = "" =>
                    /\ llm_return.t = "str"
                    /\ oracle_log[n].shape \in {"message", "str"} =>
                          llm_return.v = oracle_log[n].text

\* C13 witness: nine failed attempts of both kinds, then the tenth returns a
\* message whose content is handed back.
C13_Witness ==
    /\ pc = "done"
    /\ Len(oracle_log) = StopAfterAttempt
    /\ AllRaised(StopAfterAttempt - 1)
    /\ {oracle_log[k].exc : k \in 1..(StopAfterAttempt - 1)} = ExcKinds
    /\ oracle_log[StopAfterAttempt] = Returns("message", <<"[", "0", "]">>)
    /\ llm_return = [t |-> "str", v |-> <<"[", "0", "]">>]

\* C14: a segmentation chunk whose oracle call failed or whose answer holds no
\* decodable list contributes the empty list, for that chunk only, and the
\* planner goes on; the plan is empty only for zero MiniUnits, so
\* run_preprocessing gives up at the segmentation step only for an empty
\* transcript, before any oracle call.
C14_FailedChunkIsEmptyNeverAborts ==
    /\ Len(chunk_breaks) = Len(oracle_log)
    /\ \A k \in 1..Len(chunk_breaks) : oracle_log[k] # "json" => chunk_breaks[k] = <<>>
    /\ all_break_points = Flatten(chunk_breaks)
    /\ (pc = "done" /\ result = "False") =>
          /\ Len(mini_segments) = 0
          /\ oracle_log = <<>>
    /\ pc = "cleansing" =>
          /\ Len(mini_segments) > 0
          /\ Len(break_points) > 0
          /\ Range(break_points) \ {Len(mini_segments) - 1} \subseteq Range(all_break_points)
    /\ (Len(mini_segments) > 0 /\ pc # "segmentation") => pc = "cleansing"

\* C14 witness: three chunks; the first answer is prose, the second decodes to
\* a breakpoint, the third call failed outright; the plan is returned and holds
\* the second chunk's breakpoint.
C14_Witness ==
    /\ pc = "cleansing"
    /\ Len(oracle_log) = 3
    /\ oracle_log[1] = "prose"
    /\ oracle_log[2] = "json"
    /\ oracle_log[3] = "none"
    /\ chunk_breaks = <<<<>>, <<0>>, <<>>>>
    /\ break_points = <<0, 2>>

\* every cleansing batch so far failed or gave no decodable list
AllBatchesFailed == \A k \in 1..Len(oracle_log) : oracle_log[k] # "json"

\* C15: a cleansing batch whose oracle call failed or whose answer does not
\* decode yields no removals for that batch and the loop goes on:
\* run_batched_llm_cleansing hands back a list, never None, so run_preprocessing
\* never gives up for that reason; the records of the other batches are kept,
\* and when every batch failed the cleansed list is the input list.
C15_FailedBatchNoRemovals ==
    /\ Len(batch_removals) = Len(oracle_log)
    /\ \A k \in 1..Len(batch_removals) : oracle_log[k] # "json" => batch_removals[k] = <<>>
    /\ result # "False"
    /\ (pc = "done" /\ result = "raised") => oracle_log[Len(oracle_log)] = "json"
    /\ PreprocessingDone =>
          /\ {IdKey(removal_data[k]) : k \in 1..Len(removal_data)}
                 = {IdKey(Reported[k]) : k \in 1..Len(Reported)}
          /\ files[FRemoved] = removal_data
    /\ (pc = "done" /\ AllBatchesFailed) =>
          /\ result = "True"
          /\ removal_data = <<>>
          /\ files[F2b] = merged_segments

\* C15 witness: three batches; the first answer does not decode, the second
\* names seg_2, the third call failed; seg_2 alone is removed.
C15_Witness ==
    /\ PreprocessingDone
    /\ Len(merged_segments) = 3
    /\ oracle_log = <<"badjson", "json", "none">>
    /\ Len(removal_data) = 1
    /\ removal_data[1].id = SegId(2)
    /\ files[F2b] = <<merged_segments[1], merged_segments[3]>>

(***************************************************************************)
(* run_task_and_clean: extraction of the list from the crew's raw text     *)
(***************************************************************************)
\* The raw text is a sequence of tokens: "p" a stretch of prose, "[" "]" ","
\* the JSON punctuation, "c1" "c2" a JSON object (a clip), "~~~json" and "~~~"
\* the opening and closing fence of a json code block (three backquotes each). White space is not modelled. The texts drawn
\* hold no list nested in a list.
ClipTokens == {"c1", "c2"}

ClipOf(tok) ==
    IF tok = "c1" THEN Clip("t", TRUE, <<SegId(1)>>)
    ELSE Clip("t", TRUE, <<SegId(2), SegId(1)>>)

IndexesOf(raw, tok) == {k \in 1..Len(raw) : raw[k] = tok}

MinOf(S) == CHOOSE x \in S : \A y \in S : x <= y

\* re.search(r'\[.*\]', raw, re.DOTALL).group(0): from the first '[' to the last
\* ']' of the text; <<>> when there is no match
BracketSpan(raw) ==
    LET opens == IndexesOf(raw, "[")
        closes == IndexesOf(raw, "]")
    IN  IF opens = {} \/ closes = {} THEN <<>>
        ELSE IF MaxOf(closes) < MinOf(opens) THEN <<>>
        ELSE SubSeq(raw, MinOf(opens), MaxOf(closes))

\* re.search of the fenced-block pattern (lines 455-456), group(1): the leftmost
\* opening fence followed by '[', up to the nearest ']' followed by a closing
\* fence; <<>> when there is no match
FencedSpan(raw) ==
    LET ends(i) == {j \in (i + 2)..(Len(raw) - 1) : raw[j] = "]" /\ raw[j + 1] = "~~~"}
        starts == {i \in 1..(Len(raw) - 1) :
                      raw[i] = "~~~json" /\ raw[i + 1] = "[" /\ ends(i) # {}}
    IN  IF starts = {} THEN <<>>
        ELSE SubSeq(raw, MinOf(starts) + 1, MinOf(ends(MinOf(starts))))

\* json.loads(span) succeeds: '[' ']' around nothing, or around objects
\* separated by single commas
JsonValid(span) ==
    /\ Len(span) >= 2
    /\ span[1] = "["
    /\ span[Len(span)] = "]"
    /\ LET inner == SubSeq(span, 2, Len(span) - 1)
       IN  \/ Len(inner) = 0
           \/ /\ Len(inner) % 2 = 1
              /\ \A k \in 1..Len(inner) :
                    IF k % 2 = 1 THEN inner[k] \in ClipTokens ELSE inner[k] = ","

\* the list json.loads(span) returns
JsonData(span) == [k \in 1..((Len(span) - 1) \div 2) |-> ClipOf(span[2 * k])]

\* what run_task_and_clean returns: a list (ok) or None
Extracted(ok, data) == [ok |-> ok, data |-> data]

\* the fenced block is tried whenever the bracket span does not decode
run_task_and_clean_FallsBack(raw) ==
    IF JsonValid(BracketSpan(raw)) THEN Extracted(TRUE, JsonData(BracketSpan(raw)))
    ELSE IF JsonValid(FencedSpan(raw)) THEN Extracted(TRUE, JsonData(FencedSpan(raw)))
    ELSE Extracted(FALSE, <<>>)

\* lines 445-463: the bracket span if the text has one (a span that does not
\* decode raises inside the try and yields None); the fenced block only when
\* the text has no bracket span at all
run_task_and_clean(raw) ==
    IF BracketSpan(raw) # <<>>
    THEN IF JsonValid(BracketSpan(raw))
         THEN Extracted(TRUE, JsonData(BracketSpan(raw)))
         ELSE Extracted(FALSE, <<>>)
    ELSE IF FencedSpan(raw) # <<>>
    THEN IF JsonValid(FencedSpan(raw))
         THEN Extracted(TRUE, JsonData(FencedSpan(raw)))
         ELSE Extracted(FALSE, <<>>)
    ELSE Extracted(FALSE, <<>>)

\* raw texts the crew can hand back
CrewRaws ==
    {<<>>,
     <<"p">>,
     <<"[", "]">>,
     <<"[", "c1", "]">>,
     <<"p", "[", "c1", ",", "c2", "]", "p">>,
     <<"~~~json", "[", "c2", "]", "~~~">>,
     <<"~~~json", "[", "]", "~~~">>,
     <<"[", "p", "]", "~~~json", "[", "c1", "]", "~~~">>,
     <<"~~~json", "[", "c1", "]", "~~~", "p", "[", "p", "]">>,
     <<"[", "c1", ",", "]">>,
     <<"[", "c1">>,
     <<"]", "p", "[">>,
     <<"~~~json", "p", "~~~">>}

\* str(e) of an exception crew.kickoff() raises
KickoffError == <<"l", "i", "t", "e", "l", "l", "m", ".", "R", "a", "t", "e", "L", "i", "m", "i", "t", "E", "r", "r", "o", "r", ":", " ", "R", "a", "t", "e", " ", "l", "i", "m", "i", "t", " ", "r", "e", "a", "c", "h", "e", "d", " ", "f", "o", "r", " ", "g", "p", "t", "-", "4", "o">>

\* crew.kickoff() raises, or returns a result whose raw text is raw
CrewOutcome(raises, raw) == [raises |-> raises, raw |-> raw]
CrewOutcomes == {CrewOutcome(TRUE, <<>>)} \cup {CrewOutcome(FALSE, r) : r \in CrewRaws}

(***************************************************************************)
(* process_session_pipeline: what follows the return of a stage function   *)
(***************************************************************************)
StageCall(stage, o) == StageReturn(stage, o.result, o.exc)

\* what process_session_pipeline does once a stage has returned:
\* the statuses it writes and the stage calls it has made
TaskRest(fs, statuses, trace) == [files |-> fs, statuses |-> statuses, trace |-> trace]

\* lines 109-160 after run_postprocessing has returned o
TaskAfterPostprocessing(o) ==
    TaskRest(o.files,
             <<IF o.result = "raised" THEN FailedStatus(o.exc)
               ELSE IF o.result = "False" THEN FailedStatus(PostprocessingFailed)
               ELSE IF Loaded(o.files, F6) THEN StatusFinished
               ELSE StatusNoResults>>,
             <<StageCall("run_postprocessing", o)>>)

\* the task going on to run_postprocessing whatever run_crewai_pipeline returned
TaskAfterCrew_IgnoresFalse(o) ==
    IF o.result = "raised"
    THEN TaskRest(o.files, <<FailedStatus(o.exc)>>, <<StageCall("run_crewai_pipeline", o)>>)
    ELSE LET rest == TaskAfterPostprocessing(run_postprocessing(o.files))
         IN  TaskRest(rest.files, rest.statuses,
                      <<StageCall("run_crewai_pipeline", o)>> \o rest.trace)

\* lines 104-160 after run_crewai_pipeline has returned o
TaskAfterCrew(o) ==
    IF o.result = "raised"
    THEN TaskRest(o.files, <<FailedStatus(o.exc)>>, <<StageCall("run_crewai_pipeline", o)>>)
    ELSE IF o.result = "False"
    THEN TaskRest(o.files, <<FailedStatus(CrewAIFailed)>>,
                  <<StageCall("run_crewai_pipeline", o)>>)
    ELSE LET rest == TaskAfterPostprocessing(run_postprocessing(o.files))
         IN  TaskRest(rest.files, rest.statuses,
                      <<StageCall("run_crewai_pipeline", o)>> \o rest.trace)

(***************************************************************************)
(* run_crewai_pipeline as a state machine: one step per crew.kickoff()     *)
(***************************************************************************)
\* run_crewai_pipeline returns o; inside process_session_pipeline the task goes
\* on to the end of the run
CrewReturn(o) ==
    /\ pc' = "done"
    /\ result' = o.result
    /\ IF InTask
       THEN /\ files' = TaskAfterCrew(o).files
            /\ status_writes' = status_writes \o TaskAfterCrew(o).statuses
            /\ stage_trace' = stage_trace \o TaskAfterCrew(o).trace
       ELSE /\ files' = o.files
            /\ stage_trace' = Append(stage_trace, StageCall("run_crewai_pipeline", o))
            /\ UNCHANGED status_writes

\* the value returned after Pass B, tied to Pass B's result
PipelineResultAfterPassB_Checked(final_ok) == IF final_ok THEN "True" ELSE "False"

\* lines 434-437: the result of the second run_task_and_clean is not looked at
PipelineResultAfterPassB(final_ok) == "True"

\* lines 331-343: load the cleansed segments; nothing to do when they are
\* missing or empty
CrewStart ==
    /\ UNCHANGED serviceVars
    /\ UNCHANGED prompt_log
    /\ pc = "crew"
    /\ IF ~Loaded(files, F2b) \/ Len(files[F2b]) = 0
       THEN CrewReturn(StageOutcome(save_json(files, F5, <<>>), "True", NoException))
       ELSE /\ pc' = "passA"
            /\ UNCHANGED <<files, result, status_writes, stage_trace>>
    /\ UNCHANGED <<mini_segments, num_batches, batch_i, all_break_points,
                   chunk_breaks, break_points, merged_segments, all_removal_objects,
                   seen_ids, batch_removals, removal_data, oracle_log, crew_raw,
                   llm_return>>

\* lines 345-409: Pass A, run_task_and_clean(analyzer_agent, task_merge, merged_path)
PassA ==
    /\ UNCHANGED serviceVars
    /\ UNCHANGED prompt_log
    /\ pc = "passA"
    /\ \E o \in CrewOutcomes :
         IF o.raises
         THEN /\ oracle_log' = Append(oracle_log, "raise")
              /\ UNCHANGED crew_raw
              /\ CrewReturn(StageOutcome(files, "raised", KickoffError))
         ELSE LET merged_data == run_task_and_clean(o.raw)
                  fs == IF merged_data.ok THEN save_json(files, F4, merged_data.data)
                        ELSE files
              IN  /\ oracle_log' = Append(oracle_log, "raw")
                  /\ crew_raw' = Append(crew_raw, o.raw)
                  /\ IF ~merged_data.ok \/ Len(merged_data.data) = 0
                     THEN CrewReturn(StageOutcome(fs, "False", NoException))
                     ELSE /\ files' = fs
                          /\ pc' = "passB"
                          /\ UNCHANGED <<result, status_writes, stage_trace>>
    /\ UNCHANGED <<mini_segments, num_batches, batch_i, all_break_points,
                   chunk_breaks, break_points, merged_segments, all_removal_objects,
                   seen_ids, batch_removals, removal_data, llm_return>>

\* lines 420-437: Pass B, run_task_and_clean(analyzer_agent, task_finalize, final_path)
PassB ==
    /\ UNCHANGED serviceVars
    /\ UNCHANGED prompt_log
    /\ pc = "passB"
    /\ \E o \in CrewOutcomes :
         IF o.raises
         THEN /\ oracle_log' = Append(oracle_log, "raise")
              /\ UNCHANGED crew_raw
              /\ CrewReturn(StageOutcome(files, "raised", KickoffError))
         ELSE LET final_data == run_task_and_clean(o.raw)
                  fs == IF final_data.ok THEN save_json(files, F5, final_data.data)
                        ELSE files
              IN  /\ oracle_log' = Append(oracle_log, "raw")
                  /\ crew_raw' = Append(crew_raw, o.raw)
                  /\ CrewReturn(StageOutcome(fs, PipelineResultAfterPassB(final_data.ok),
                                             NoException))
    /\ UNCHANGED <<mini_segments, num_batches, batch_i, all_break_points,
                   chunk_breaks, break_points, merged_segments, all_removal_objects,
                   seen_ids, batch_removals, removal_data, llm_return>>

\* run_crewai_pipeline is called, on its own or by process_session_pipeline,
\* after a run_preprocessing over MaxUnits lines; the cleansed list is missing,
\* empty, or holds every merged segment.
InitCrew ==
    /\ ServiceIdle
    /\ prompt_log = <<>>
    /\ pc = "crew"
    /\ mini_segments = WithIds(FixedTranscript(MaxUnits))
    /\ break_points \in {FinalizeBreaks(x, MaxUnits) : x \in SeqUpTo(0..MaxUnits, 1)}
    /\ merged_segments = execute_merge_plan(mini_segments, break_points)
    /\ LET fs == save_json(save_json(save_json(NoFiles, F1, mini_segments),
                                     F2, merged_segments),
                           F2a, MappingOf(merged_segments))
       IN  files \in {fs, save_json(fs, F2b, <<>>), save_json(fs, F2b, merged_segments)}
    /\ status_writes \in {<<>>, ProcessingWrites}
    /\ num_batches = 1
    /\ batch_i = 0
    /\ all_break_points = break_points
    /\ chunk_breaks = <<break_points>>
    /\ all_removal_objects = <<>>
    /\ seen_ids = {}
    /\ batch_removals = <<>>
    /\ removal_data = <<>>
    /\ result = "none"
    /\ oracle_log = <<>>
    /\ crew_raw = <<>>
    /\ llm_return = NotReturned
    /\ stage_trace = <<>>

NextCrew == CrewStart \/ PassA \/ PassB

SpecCrew == InitCrew /\ [][NextCrew]_vars

(***************************************************************************)
(* The stage functions called on their own, empty inputs included          *)
(***************************************************************************)
\* run_preprocessing lines 115-134 from the call of run_batched_llm_cleansing:
\* lines 228-231, an empty segment list returns [] before any oracle call.
EnterCleansing ==
    /\ UNCHANGED serviceVars
    /\ UNCHANGED prompt_log
    /\ pc = "clean_entry"
    /\ IF Len(merged_segments) = 0
       THEN FinishCleansing(files, merged_segments, <<>>)
       ELSE /\ pc' = "cleansing"
            /\ UNCHANGED <<files, result, removal_data>>
    /\ UNCHANGED <<mini_segments, num_batches, batch_i, all_break_points,
                   chunk_breaks, break_points, merged_segments, all_removal_objects,
                   seen_ids, batch_removals, oracle_log, crew_raw, llm_return>>
    /\ TracePreprocessing

\* the cleansing step is handed no segment at all, or the single segment of a
\* one-line transcript
InitCleanEntry ==
    /\ ServiceIdle
    /\ prompt_log = <<>>
    /\ pc = "clean_entry"
    /\ \E n \in 0..1 :
         /\ mini_segments = WithIds(FixedTranscript(n))
         /\ break_points = IF n = 0 THEN <<>> ELSE <<0>>
    /\ merged_segments = execute_merge_plan(mini_segments, break_points)
    /\ files = save_json(save_json(save_json(NoFiles, F1, mini_segments),
                                   F2, merged_segments),
                         F2a, MappingOf(merged_segments))
    /\ num_batches \in 1..MaxBatches
    /\ batch_i = 0
    /\ all_break_points = break_points
    /\ chunk_breaks = <<>>
    /\ all_removal_objects = <<>>
    /\ seen_ids = {}
    /\ batch_removals = <<>>
    /\ removal_data = <<>>
    /\ result = "none"
    /\ oracle_log = <<>>
    /\ crew_raw = <<>>
    /\ llm_return = NotReturned
    /\ status_writes = <<>>
    /\ stage_trace = <<>>

InitStages == InitCleanEntry \/ InitCrew \/ InitPost

NextStages == EnterCleansing \/ CleanBatch \/ CrewStart \/ PassA \/ PassB \/ RunPostprocessing

SpecStages == InitStages /\ [][NextStages]_vars

(***************************************************************************)
(* process_session_pipeline as one run, from the session lookup on         *)
(***************************************************************************)
\* str(e) of what DriveService.download_video_file and
\* TranscriptionService.generate_transcript_from_video raise
DownloadFailed == <<"D", "o", "w", "n", "l", "o", "a", "d", " ", "f", "a", "i", "l", "e", "d", ":", " ", "H", "T", "T", "P", " ", "E", "r", "r", "o", "r", " ", "4", "0", "4", ":", " ", "N", "o", "t", " ", "F", "o", "u", "n", "d">>
TranscriptionFailed == <<"T", "r", "a", "n", "s", "c", "r", "i", "p", "t", "i", "o", "n", " ", "f", "a", "i", "l", "e", "d", ":", " ", "N", "o", " ", "a", "u", "d", "i", "o", " ", "s", "t", "r", "e", "a", "m">>

\* tasks.py lines 50-95: the session lookup, the download and the
\* transcription, up to the call of run_preprocessing
TaskStart ==
    /\ pc = "task"
    /\ \E o \in {"no session", "download raises", "transcription raises", "ok"} :
         /\ status_writes' =
               CASE o = "no session" -> <<>>
                 [] o = "download raises" ->
                        <<StatusDownloading, FailedStatus(DownloadFailed)>>
                 [] o = "transcription raises" ->
                        <<StatusDownloading, StatusTranscribing,
                          FailedStatus(TranscriptionFailed)>>
                 [] OTHER -> ProcessingWrites
         /\ pc' = IF o = "ok" THEN "start" ELSE "done"
    /\ UNCHANGED <<mini_segments, num_batches, batch_i, all_break_points,
                   chunk_breaks, break_points, merged_segments, all_removal_objects,
                   seen_ids, batch_removals, removal_data, files, result,
                   oracle_log, crew_raw, llm_return, stage_trace>>
    /\ UNCHANGED serviceVars
    /\ UNCHANGED prompt_log

\* the task was taken off the queue
InitTask ==
    /\ ServiceIdle
    /\ prompt_log = <<>>
    /\ pc = "task"
    /\ mini_segments = <<>>
    /\ num_batches = 1
    /\ batch_i = 0
    /\ all_break_points = <<>>
    /\ chunk_breaks = <<>>
    /\ break_points = <<>>
    /\ merged_segments = <<>>
    /\ all_removal_objects = <<>>
    /\ seen_ids = {}
    /\ batch_removals = <<>>
    /\ removal_data = <<>>
    /\ files = NoFiles
    /\ result = "none"
    /\ oracle_log = <<>>
    /\ crew_raw = <<>>
    /\ llm_return = NotReturned
    /\ status_writes = <<>>
    /\ stage_trace = <<>>

NextTask ==
    TaskStart \/ StartPreprocessing \/ SegBatch \/ CleanBatch \/ CrewStart \/ PassA \/ PassB

SpecTask == InitTask /\ [][NextTask]_vars

\* the stage function named stage has returned res
StageDone(stage, res) ==
    /\ pc = "done"
    /\ Len(stage_trace) > 0
    /\ stage_trace[1].stage = stage
    /\ stage_trace[1].result = res

Undecodable(raw) == ~JsonValid(BracketSpan(raw)) /\ ~JsonValid(FencedSpan(raw))

\* run_crewai_pipeline is over and its last crew call was pass number n
EndedInPass(n) == pc = "done" /\ Len(oracle_log) = n

\* the last crew call raised / handed back text that does not decode
LastCallRaised == oracle_log[Len(oracle_log)] = "raise"
LastCallUndecodable ==
    /\ oracle_log[Len(oracle_log)] = "raw"
    /\ Undecodable(crew_raw[Len(crew_raw)])

JobStatus == status_writes[Len(status_writes)]

\* process_session_pipeline stopped before Remap and with a failure status
TaskHalted ==
    /\ \A k \in 1..Len(stage_trace) : stage_trace[k].stage # "run_postprocessing"
    /\ \A k \in 1..Len(status_writes) : status_writes[k] # StatusFinished
    /\ SubSeq(JobStatus, 1, 8) = <<"F", "a", "i", "l", "e", "d", ":", " ">>

\* C16 as stated: a crew call that raises or whose text does not decode, in
\* Pass A or in Pass B, makes run_crewai_pipeline report failure, and
\* process_session_pipeline then neither runs Remap nor writes "Finished".
C16_EitherPassFailureHalts ==
    ((EndedInPass(1) \/ EndedInPass(2)) /\ (LastCallRaised \/ LastCallUndecodable)) =>
        /\ result # "True"
        /\ InTask => TaskHalted

\* C16 amended: the hard failure is Pass A's. Text that does not decode in
\* Pass A makes run_crewai_pipeline return False, and an exception of the crew
\* in either pass leaves run_crewai_pipeline as an exception; in both cases
\* process_session_pipeline writes a "Failed: ..." status and runs no Remap.
\* Text that does not decode in Pass B is tolerated: run_crewai_pipeline
\* returns True without writing the final artifact, Remap runs on the missing
\* final list, writes [] and the job_status becomes "Finished".
C16_PassAHardPassBTolerated ==
    /\ (EndedInPass(1) /\ LastCallUndecodable) =>
          /\ result = "False"
          /\ ~Loaded(files, F4)
          /\ InTask => TaskHalted /\ JobStatus = FailedStatus(CrewAIFailed)
    /\ ((EndedInPass(1) \/ EndedInPass(2)) /\ LastCallRaised) =>
          /\ result = "raised"
          /\ InTask => TaskHalted /\ JobStatus = FailedStatus(KickoffError)
    /\ (EndedInPass(2) /\ LastCallUndecodable) =>
          /\ result = "True"
          /\ ~Loaded(files, F5)
          /\ InTask => /\ stage_trace[Len(stage_trace)] =
                              StageReturn("run_postprocessing", "True", NoException)
                       /\ files[F6] = <<>>
                       /\ JobStatus = StatusFinished

\* C16 witness: inside process_session_pipeline, Pass A decoded a clip, Pass B
\* answered prose only; the run ended "Finished" with an empty mapped artifact.
C16_Witness ==
    /\ EndedInPass(2)
    /\ InTask
    /\ crew_raw = <<<<"[", "c1", "]">>, <<"p">>>>
    /\ result = "True"
    /\ files[F4] = <<ClipOf("c1")>>
    /\ files[F6] = <<>>
    /\ JobStatus = StatusFinished

\* the text of Pass A decodes to the empty list
PassADecodesToEmpty ==
    /\ Len(oracle_log) >= 1
    /\ oracle_log[1] = "raw"
    /\ JsonValid(BracketSpan(crew_raw[1]))
    /\ JsonData(BracketSpan(crew_raw[1])) = <<>>

\* C17: when Pass A decodes to an empty list, Pass B is not invoked, both
\* 4-conceptual_merges.json and 5-final_results.json are written as empty
\* lists, and run_crewai_pipeline returns True.
C17_EmptyPassAIsSuccess ==
    PassADecodesToEmpty =>
        /\ EndedInPass(1)
        /\ result = "True"
        /\ Loaded(files, F4) /\ files[F4] = <<>>
        /\ Loaded(files, F5) /\ files[F5] = <<>>

\* pass number n handed back text (crew_raw[n]) and returned a list: its
\* artifact was written
PassReturnedList(n) == Loaded(files, IF n = 1 THEN F4 ELSE F5)

\* pass number n handed back text and is over
PassOver(n) ==
    /\ Len(crew_raw) >= n
    /\ n = 2 => pc = "done"

\* C18: run_task_and_clean takes the span from the first '[' to the last ']'
\* and, if that span does not decode, falls back to the fenced json block: a
\* text holding a fenced block with a valid JSON list makes the pass return a
\* list, and a pass fails only when both strategies fail.
C18_FencedBlockRescues ==
    \A n \in 1..2 :
        PassOver(n) =>
            /\ JsonValid(FencedSpan(crew_raw[n])) => PassReturnedList(n)
            /\ ~PassReturnedList(n) => Undecodable(crew_raw[n])

\* the files run_preprocessing, run_crewai_pipeline and run_postprocessing
\* write as their results
PipelineArtifacts == {F1, F2, F2a, FRemoved, F2b, F4, F5, F6}

\* C19: when a pass fails because its text cannot be extracted or decoded, the
\* raw text has been written to a side artifact by the time the pass returns.
C19_RawPreservedOnFailure ==
    \A n \in 1..2 :
        (PassOver(n) /\ ~PassReturnedList(n)) =>
            \E name \in DOMAIN files \ PipelineArtifacts : files[name] = crew_raw[n]

\* C20: each stage function hands its caller True or False; no exception
\* leaves run_preprocessing, run_crewai_pipeline or run_postprocessing,
\* whatever the oracle answers or raises and whichever artifact is missing.
C20_StagesReturnBooleans ==
    \A k \in 1..Len(stage_trace) : stage_trace[k].result \in {"True", "False"}

(***************************************************************************)
(* Properties of a whole run of process_session_pipeline                   *)
(***************************************************************************)
StageFunctions == <<"run_preprocessing", "run_crewai_pipeline", "run_postprocessing">>

\* the calls made to the crew so far
CrewCalls == {k \in 1..Len(oracle_log) : oracle_log[k] \in {"raise", "raw"}}

\* the run is over and the session had been found
TaskDone == pc = "done" /\ InTask

WroteFinished == \E k \in 1..Len(status_writes) : status_writes[k] = StatusFinished
RanRemap == \E k \in 1..Len(stage_trace) : stage_trace[k].stage = "run_postprocessing"

\* Pass B was run and its text did not decode
PassBUndecoded ==
    /\ Cardinality(CrewCalls) = 2
    /\ Len(crew_raw) = 2
    /\ ~run_task_and_clean(crew_raw[2]).ok

\* the stage functions ran in their order, each after a True of the one before
StagesInOrder ==
    /\ Len(stage_trace) <= 3
    /\ \A k \in 1..Len(stage_trace) :
          /\ stage_trace[k].stage = StageFunctions[k]
          /\ k < Len(stage_trace) => stage_trace[k].result = "True"
    /\ \A j, k \in 1..Len(oracle_log) : (j \in CrewCalls /\ k \notin CrewCalls) => k < j
    /\ Cardinality(CrewCalls) <= 2
    /\ Len(merged_segments) > 0 => Len(chunk_breaks) > 0
    /\ Len(batch_removals) > 0 => (Loaded(files, F2) /\ Loaded(files, F2a))
    /\ CrewCalls # {} => (Loaded(files, F2b) /\ stage_trace[1].result = "True")
    /\ Cardinality(CrewCalls) = 2 => (Loaded(files, F4) /\ Len(files[F4]) > 0)
    /\ Loaded(files, F6) => RanRemap

\* where the run is agrees with what has happened so far: a stage is entered
\* with nothing of a later stage done, and each chunk is asked about once
StageEnteredOnce ==
    /\ pc \in {"task", "start"} =>
          (oracle_log = <<>> /\ stage_trace = <<>> /\ ~Loaded(files, F2))
    /\ pc = "segmentation" =>
          /\ Len(oracle_log) = Len(chunk_breaks)
          /\ Len(chunk_breaks) = batch_i
          /\ merged_segments = <<>> /\ batch_removals = <<>> /\ stage_trace = <<>>
    /\ pc = "cleansing" =>
          /\ Len(batch_removals) = batch_i
          /\ Len(oracle_log) = Len(chunk_breaks) + Len(batch_removals)
          /\ Len(merged_segments) > 0 /\ stage_trace = <<>> /\ ~Loaded(files, F2b)
    /\ pc \in {"crew", "passA"} =>
          (CrewCalls = {} /\ Len(stage_trace) = 1 /\ ~Loaded(files, F4))
    /\ pc = "passB" =>
          (Cardinality(CrewCalls) = 1 /\ Len(stage_trace) = 1 /\ ~Loaded(files, F5))
    /\ Len(chunk_breaks) <= num_batches
    /\ Len(batch_removals) <= num_batches

\* C21 as stated: the stages run in their order and never twice, and once a
\* stage has failed (a stage function returned False or raised, or Pass B's
\* text did not decode) no later stage runs and "Finished" is never written.
C21_AnyStageFailureHalts ==
    /\ StagesInOrder
    /\ StageEnteredOnce
    /\ (TaskDone /\ (PassBUndecoded
                         \/ \E k \in 1..Len(stage_trace) : stage_trace[k].result # "True")) =>
          /\ ~WroteFinished
          /\ PassBUndecoded => ~RanRemap

\* C21 amended: the stages run strictly in the order Segmentation, Merge,
\* Cleansing, Pass A, Pass B, Remap and none is entered twice; a stage function
\* is called only after the one before returned True; once a stage function
\* returns False or raises, it is the last one called, the job_status ends as
\* "Failed: ..." and is never "Finished". The one failure that does not halt
\* the run is Pass B's text not decoding: run_crewai_pipeline still returns
\* True, Remap runs and the job_status becomes "Finished".
C21_StagesInOrderFailureHaltsButPassB ==
    /\ StagesInOrder
    /\ StageEnteredOnce
    /\ (TaskDone /\ \E k \in 1..Len(stage_trace) : stage_trace[k].result # "True") =>
          /\ stage_trace[Len(stage_trace)].result # "True"
          /\ ~WroteFinished
          /\ ~RanRemap
          /\ SubSeq(JobStatus, 1, 8) = <<"F", "a", "i", "l", "e", "d", ":", " ">>
    /\ (TaskDone /\ WroteFinished) =>
          /\ Len(stage_trace) = 3
          /\ \A k \in 1..3 : stage_trace[k].result = "True"
          /\ JobStatus = StatusFinished
    /\ (TaskDone /\ PassBUndecoded) =>
          /\ stage_trace[2] = StageReturn("run_crewai_pipeline", "True", NoException)
          /\ RanRemap
          /\ JobStatus = StatusFinished

\* C21 witness: a run whose segmentation, merge and cleansing succeeded and
\* whose Pass A handed back text that does not decode: run_crewai_pipeline
\* returned False, no Remap ran and the job_status is "Failed: CrewAI failed".
C21_Witness ==
    /\ TaskDone
    /\ Len(stage_trace) = 2
    /\ stage_trace[1] = StageReturn("run_preprocessing", "True", NoException)
    /\ stage_trace[2] = StageReturn("run_crewai_pipeline", "False", NoException)
    /\ Len(chunk_breaks) > 0 /\ Len(batch_removals) > 0
    /\ Cardinality(CrewCalls) = 1
    /\ ~Loaded(files, F4) /\ ~Loaded(files, F6)
    /\ JobStatus = FailedStatus(CrewAIFailed)

\* the run ended on an exception: one raised by the download or the
\* transcription, one a stage function let through, or the one
\* process_session_pipeline raises itself when a stage function returns False
RunFailed ==
    /\ TaskDone
    /\ stage_trace = <<>> \/ stage_trace[Len(stage_trace)].result # "True"

\* str(e) of that exception
TriggerMessage ==
    IF stage_trace = <<>>
    THEN (IF Len(status_writes) = 2 THEN DownloadFailed ELSE TranscriptionFailed)
    ELSE LET last == stage_trace[Len(stage_trace)]
         IN  IF last.result = "raised" THEN last.exc
             ELSE CASE last.stage = "run_preprocessing" -> PreprocessingFailed
                    [] last.stage = "run_crewai_pipeline" -> CrewAIFailed
                    [] OTHER -> PostprocessingFailed

FailedPrefix == <<"F", "a", "i", "l", "e", "d", ":", " ">>

\* C22: when a stage reports failure or an exception is raised after the
\* session was found, the last job_status written in the run is "Failed: "
\* followed by the exception's message, the whole cut to at most 49
\* characters; no "Processing: ..." value is left standing and "Finished" was
\* never written.
C22_FailureStatusIsLastWrite ==
    RunFailed =>
        LET full == FailedPrefix \o TriggerMessage
        IN  /\ JobStatus = SubSeq(full, 1, Min(Len(full), 49))
            /\ Len(JobStatus) <= 49
            /\ SubSeq(JobStatus, 1, 8) = FailedPrefix
            /\ JobStatus \notin Range(ProcessingWrites)
            /\ \A k \in 1..(Len(status_writes) - 1) :
                  status_writes[k] = ProcessingWrites[k]

\* C22 witness: the crew raised in Pass B, after all three "Processing: ..."
\* writes; the message is too long for the column and the status written last
\* is its first 49 characters with the prefix.
C22_Witness ==
    /\ RunFailed
    /\ Len(stage_trace) = 2
    /\ stage_trace[2] = StageReturn("run_crewai_pipeline", "raised", KickoffError)
    /\ Cardinality(CrewCalls) = 2
    /\ Len(FailedPrefix \o KickoffError) > 49
    /\ Len(status_writes) = 4
    /\ Len(JobStatus) = 49
    /\ JobStatus = SubSeq(FailedPrefix \o KickoffError, 1, 49)

\* run_preprocessing was called by the task and found no transcript it could
\* load (nothing saved) or a transcript without any line (an empty list saved)
InputError ==
    /\ Len(status_writes) >= 3
    /\ status_writes[3] = StatusAnalyzing
    /\ pc # "start"
    /\ ~Loaded(files, F1) \/ files[F1] = <<>>

\* C23: a missing or unreadable transcript, or one with zero MiniUnits, makes
\* run_preprocessing return False with no oracle call made and nothing merged
\* or cleansed; no later stage runs and process_session_pipeline ends the run
\* with "Failed: Preprocessing failed".
C23_InputErrorAbortsBeforeOracle ==
    InputError =>
        /\ pc = "done"
        /\ stage_trace = <<StageReturn("run_preprocessing", "False", NoException)>>
        /\ oracle_log = <<>>
        /\ chunk_breaks = <<>> /\ batch_removals = <<>> /\ crew_raw = <<>>
        /\ merged_segments = <<>>
        /\ DOMAIN files \subseteq {F1}
        /\ status_writes = Append(ProcessingWrites, FailedStatus(PreprocessingFailed))

\* C23 witness: the transcript loaded but holds no line; the empty numbered
\* list was saved and the run ended as a failure without any oracle call.
C23_Witness ==
    /\ InputError
    /\ Loaded(files, F1)
    /\ files[F1] = <<>>
    /\ pc = "done"
    /\ oracle_log = <<>>
    /\ JobStatus = FailedStatus(PreprocessingFailed)

(***************************************************************************)
(* Properties of the batching                                              *)
(***************************************************************************)
PromptsOf(stage) == SelectSeq(prompt_log, LAMBDA q : q.stage = stage)
BatchesOf(stage) == [k \in 1..Len(PromptsOf(stage)) |-> PromptsOf(stage)[k].batch]

\* the planner has asked about its last chunk / so has the cleansing
SegmentationOver == pc \notin {"task", "start", "segmentation"} /\ Len(chunk_breaks) > 0
CleansingOver == Loaded(files, F2b) /\ Len(merged_segments) > 0

\* the chunks are consecutive pieces of lst that cover it item by item, in its
\* order, each of size ceil(total/nb) but the last, which is not empty
CutsInOrder(batches, lst, nb) ==
    /\ Len(batches) > 0
    /\ Flatten(batches) = lst
    /\ \A k \in 1..(Len(batches) - 1) : Len(batches[k]) = CeilDiv(Len(lst), nb)
    /\ Len(batches[Len(batches)]) \in 1..CeilDiv(Len(lst), nb)

\* C25 as stated: exactly num_batches chunks, one oracle call each.
C25_ExactlyNumBatchesChunks ==
    /\ SegmentationOver =>
          /\ CutsInOrder(BatchesOf("segmentation"), mini_segments, num_batches)
          /\ Len(BatchesOf("segmentation")) = num_batches
    /\ CleansingOver =>
          /\ CutsInOrder(BatchesOf("cleansing"), merged_segments, num_batches)
          /\ Len(BatchesOf("cleansing")) = num_batches

\* C25 amended: for total >= 1 items and num_batches >= 1 the planner, and in
\* the same way the cleansing, cut the list into contiguous chunks of size
\* ceil(total/num_batches), the last one possibly shorter but never empty; the
\* chunks are disjoint, cover every item once and are sent to the oracle one
\* call each in input order. Their number is
\* ceil(total / ceil(total/num_batches)), which is at most num_batches and is
\* smaller whenever that many chunks of this size would overshoot the list.
C25_ChunksOfCeilSizeAtMostNumBatches ==
    /\ SegmentationOver =>
          /\ CutsInOrder(BatchesOf("segmentation"), mini_segments, num_batches)
          /\ Len(BatchesOf("segmentation")) =
                CeilDiv(Len(mini_segments), CeilDiv(Len(mini_segments), num_batches))
          /\ Len(BatchesOf("segmentation")) <= num_batches
          /\ Len(chunk_breaks) = Len(BatchesOf("segmentation"))
    /\ CleansingOver =>
          /\ CutsInOrder(BatchesOf("cleansing"), merged_segments, num_batches)
          /\ Len(BatchesOf("cleansing")) =
                CeilDiv(Len(merged_segments), CeilDiv(Len(merged_segments), num_batches))
          /\ Len(BatchesOf("cleansing")) <= num_batches
          /\ Len(batch_removals) = Len(BatchesOf("cleansing"))
    /\ Len(prompt_log) = Len(oracle_log) - Cardinality(CrewCalls)

\* C25 witness: three lines and two merged segments with num_batches = 3; the
\* planner asked about three chunks of one line, the cleansing about two
\* chunks of one segment, not three.
C25_Witness ==
    /\ CleansingOver
    /\ num_batches = 3
    /\ Len(mini_segments) = 3
    /\ Len(merged_segments) = 2
    /\ Len(BatchesOf("segmentation")) = 3
    /\ BatchesOf("cleansing") = <<<<merged_segments[1]>>, <<merged_segments[2]>>>>

(***************************************************************************)
(* Properties of the references a final clip makes                         *)
(***************************************************************************)
\* the ids of the BigSegments the Cleansing Filter took out in this run
FilteredOut ==
    {files[F2][k].id : k \in 1..Len(files[F2])} \
        {files[F2b][k].id : k \in 1..Len(files[F2b])}

\* C26: a final clip that refers to a BigSegment the Cleansing Filter removed
\* gets the sentinels "UNKNOWN_RANGE" and "UNKNOWN_TIMESTAMP" at that
\* position, not a real range and real timestamps, and run_postprocessing
\* returns True all the same.
C26_RemovedSegmentResolvesToSentinel ==
    (TaskDone /\ RanRemap /\ Loaded(files, F6) /\ Loaded(files, F2b)) =>
        /\ stage_trace[3].result = "True"
        /\ \A i \in 1..Len(files[F6]) :
              \A k \in 1..Len(UsedOf(files[F6][i])) :
                  UsedOf(files[F6][i])[k] \in FilteredOut =>
                      /\ files[F6][i].mapped_mini_segment_ranges[k] = UnknownRange
                      /\ files[F6][i].source_segment_timestamps[k] = UnknownTimestamp

\* C29: in every mapped clip made from the artifacts of one run, position by
\* position, the range is "UNKNOWN_RANGE" exactly when the timestamp is
\* "UNKNOWN_TIMESTAMP": the mapping and the timestamp lookup are built from the
\* same merged list, so an id is known to both or to neither.
C29_SentinelsAgree ==
    (TaskDone /\ RanRemap /\ Loaded(files, F6)) =>
        \A i \in 1..Len(files[F6]) :
            /\ Len(files[F6][i].mapped_mini_segment_ranges) = Len(UsedOf(files[F6][i]))
            /\ Len(files[F6][i].source_segment_timestamps) = Len(UsedOf(files[F6][i]))
            /\ \A k \in 1..Len(UsedOf(files[F6][i])) :
                  (files[F6][i].mapped_mini_segment_ranges[k] = UnknownRange)
                      <=> (files[F6][i].source_segment_timestamps[k] = UnknownTimestamp)

\* C29 witness: the run merged everything into seg_1; the final clip lists
\* seg_2, which never existed, and seg_1: sentinels in both lists at the first
\* position, the real range and the real times at the second.
C29_Witness ==
    /\ TaskDone
    /\ RanRemap
    /\ Len(merged_segments) = 1
    /\ Loaded(files, F6)
    /\ Len(files[F6]) = 1
    /\ files[F6][1].big_segments_used = <<SegId(2), SegId(1)>>
    /\ files[F6][1].mapped_mini_segment_ranges[1] = UnknownRange
    /\ files[F6][1].source_segment_timestamps[1] = UnknownTimestamp
    /\ files[F6][1].mapped_mini_segment_ranges[2] = RangeStr(merged_segments[1])
    /\ files[F6][1].source_segment_timestamps[2] = Timestamp(merged_segments[1])

(***************************************************************************)
(* The sessions API: POST /upload-session and GET /jobs/{id}/status        *)
(***************************************************************************)
MaxRequests == 3

Links == {"link_a", "link_b"}

pipelineVars == <<pc, mini_segments, num_batches, batch_i, all_break_points,
                  chunk_breaks, break_points, merged_segments, all_removal_objects,
                  seen_ids, batch_removals, removal_data, files, result, oracle_log,
                  crew_raw, llm_return, status_writes, stage_trace, prompt_log>>

videoVars == <<snippets, trims, video_result>>

\* a row of the session table
SessionRow(id, drive_link, job_status) ==
    [id |-> id, drive_link |-> drive_link, job_status |-> job_status]

NoRow == SessionRow(0, "", "")

\* the response of a request: nothing yet (code 0), the JSON body of a 200, or
\* the detail of an HTTPException
NoResponse == [code |-> 0, detail |-> "", body |-> NoRow]
Ok(body) == [code |-> 200, detail |-> "", body |-> body]
HTTPException(status_code, detail) == [code |-> status_code, detail |-> detail, body |-> NoRow]

\* a request being served: the route, its argument (the drive_link posted or
\* the session id asked about), where its handler is, how many rows the table
\* held when the handler read it (history) and what was answered
Request(op, link, id) ==
    [op |-> op, link |-> link, id |-> id, pc |-> "check", seen |-> 0,
     response |-> NoResponse]

\* SupabaseService.get(table="session", filters=...): a row that matches, if any
RowsWhere(rows, Matches(_)) == SelectSeq(rows, Matches)

\* the duplicate check passing whatever the table holds
HasDuplicate_Never(rows, link) == FALSE

\* sessions.py lines 25-27: existing = await supabase.get(... drive_link ...)
HasDuplicate(rows, link) ==
    Len(RowsWhere(rows, LAMBDA row : row.drive_link = link)) > 0

\* a request reaches the server
Receive ==
    /\ Cardinality(DOMAIN req) < MaxRequests
    /\ \E q \in {Request("upload", l, 0) : l \in Links}
                 \cup {Request("status", "", i) : i \in 1..MaxRequests} :
         req' = [r \in DOMAIN req \cup {Cardinality(DOMAIN req) + 1} |->
                    IF r \in DOMAIN req THEN req[r] ELSE q]
    /\ UNCHANGED <<sessions, enqueued>>
    /\ UNCHANGED videoVars
    /\ UNCHANGED pipelineVars

\* upload_session lines 22-32: the duplicate check and the 400 it may raise
UploadCheck(r) ==
    /\ req[r].op = "upload"
    /\ req[r].pc = "check"
    /\ req' = [req EXCEPT ![r] =
                  IF HasDuplicate(sessions, req[r].link)
                  THEN [@ EXCEPT !.pc = "done", !.seen = Len(sessions),
                                 !.response = HTTPException(400,
                                     "Session with this Drive link already exists.")]
                  ELSE [@ EXCEPT !.pc = "insert", !.seen = Len(sessions)]]
    /\ UNCHANGED <<sessions, enqueued>>
    /\ UNCHANGED videoVars
    /\ UNCHANGED pipelineVars

\* upload_session lines 34-50: insert the row (the database numbers it), hand
\* its id to process_session_pipeline.delay, answer with the row
UploadInsert(r) ==
    /\ req[r].op = "upload"
    /\ req[r].pc = "insert"
    /\ LET new_session == SessionRow(Len(sessions) + 1, req[r].link, "Pending")
       IN  /\ sessions' = Append(sessions, new_session)
           /\ enqueued' = Append(enqueued, new_session.id)
           /\ req' = [req EXCEPT ![r] = [@ EXCEPT !.pc = "done",
                                                   !.response = Ok(new_session)]]
    /\ UNCHANGED videoVars
    /\ UNCHANGED pipelineVars

\* get_job_status lines 77-84
GetJobStatus(r) ==
    /\ req[r].op = "status"
    /\ req[r].pc = "check"
    /\ LET found == RowsWhere(sessions, LAMBDA row : row.id = req[r].id)
       IN  req' = [req EXCEPT ![r] =
                      [@ EXCEPT !.pc = "done",
                                !.seen = Len(sessions),
                                !.response =
                                    IF Len(found) = 0
                                    THEN HTTPException(404, "Session not found")
                                    ELSE Ok(SessionRow(0, "", found[1].job_status))]]
    /\ UNCHANGED <<sessions, enqueued>>
    /\ UNCHANGED videoVars
    /\ UNCHANGED pipelineVars

\* the server is up, the session table is empty and nothing is queued
InitApi ==
    /\ sessions = <<>>
    /\ enqueued = <<>>
    /\ req = NoRequests
    /\ snippets = <<>>
    /\ trims = <<>>
    /\ video_result = <<>>
    /\ pc = "api"
    /\ mini_segments = <<>>
    /\ num_batches = 1
    /\ batch_i = 0
    /\ all_break_points = <<>>
    /\ chunk_breaks = <<>>
    /\ break_points = <<>>
    /\ merged_segments = <<>>
    /\ all_removal_objects = <<>>
    /\ seen_ids = {}
    /\ batch_removals = <<>>
    /\ removal_data = <<>>
    /\ files = NoFiles
    /\ result = "none"
    /\ oracle_log = <<>>
    /\ crew_raw = <<>>
    /\ llm_return = NotReturned
    /\ status_writes = <<>>
    /\ stage_trace = <<>>
    /\ prompt_log = <<>>

NextApi ==
    \/ Receive
    \/ \E r \in DOMAIN req : UploadCheck(r)
    \/ \E r \in DOMAIN req : UploadInsert(r)
    \/ \E r \in DOMAIN req : GetJobStatus(r)

SpecApi == InitApi /\ [][NextApi]_vars

\* the upload requests answered so far, and those answered with the new row
Uploads == {r \in DOMAIN req : req[r].op = "upload" /\ req[r].pc = "done"}
Created == {r \in Uploads : req[r].response.code = 200}

RowsOf(link) == RowsWhere(sessions, LAMBDA row : row.drive_link = link)
TimesEnqueued(id) == Len(SelectSeq(enqueued, LAMBDA e : e = id))

\* C24: an upload whose drive_link matched no session when it was checked
\* creates one row with job_status "Pending", enqueues process_session_pipeline
\* once with that row's id and answers with the row; an upload whose drive_link
\* matched is answered 400 and creates and enqueues nothing; asking for the
\* status of an unknown session id is answered 404 "Session not found".
C24_UploadCreatesOnceDuplicateRejected ==
    /\ \A r \in Uploads :
          IF \E k \in 1..req[r].seen : sessions[k].drive_link = req[r].link
          THEN req[r].response =
                   HTTPException(400, "Session with this Drive link already exists.")
          ELSE /\ req[r].response.code = 200
               /\ req[r].response.body.drive_link = req[r].link
               /\ req[r].response.body.job_status = "Pending"
               /\ Len(RowsWhere(sessions, LAMBDA row : row = req[r].response.body)) = 1
               /\ Len(RowsWhere(sessions,
                                 LAMBDA row : row.id = req[r].response.body.id)) = 1
               /\ TimesEnqueued(req[r].response.body.id) = 1
    /\ Len(sessions) = Cardinality(Created)
    /\ Len(enqueued) = Cardinality(Created)
    /\ \A r \in DOMAIN req :
          (req[r].op = "status" /\ req[r].pc = "done") =>
              IF \E k \in 1..req[r].seen : sessions[k].id = req[r].id
              THEN req[r].response.code = 200
              ELSE req[r].response = HTTPException(404, "Session not found")

\* C24 witness: link_a was posted twice, one request after the other, and the
\* status of session 3 was asked for: one row, one task, a 400 and a 404.
C24_Witness ==
    /\ DOMAIN req = 1..3
    /\ \A r \in 1..3 : req[r].pc = "done"
    /\ req[1].response = Ok(SessionRow(1, "link_a", "Pending"))
    /\ req[2].op = "upload" /\ req[2].link = "link_a" /\ req[2].seen = 1
    /\ req[2].response.code = 400
    /\ req[3].op = "status" /\ req[3].id = 3
    /\ req[3].response = HTTPException(404, "Session not found")
    /\ sessions = <<SessionRow(1, "link_a", "Pending")>>
    /\ enqueued = <<1>>

\* C30: however concurrent uploads interleave, no drive_link has more than
\* one row in the session table nor more than one task enqueued for it: of two
\* requests that post the same link at most one is answered with a new row.
C30_OneSessionPerLink ==
    /\ \A l \in Links :
          /\ Len(RowsOf(l)) <= 1
          /\ Len(SelectSeq(enqueued,
                            LAMBDA e : \E k \in 1..Len(sessions) :
                                           sessions[k].id = e /\ sessions[k].drive_link = l)) <= 1
    /\ \A r1, r2 \in Created : req[r1].link = req[r2].link => r1 = r2

(***************************************************************************)
(* From the mapped artifact to the videos: the snippet rows, the plan of   *)
(* generate_snippet_video and process_video_with_ffmpeg                    *)
(***************************************************************************)
\* float(probe['format']['duration']) of the source video, in seconds
VideoDuration == 30

\* one call of ffmpeg ... .output(temp_file_path, ss=start, to=end): range
\* number seg (from 0) of video number clip (from 1)
Cut(clip, seg, ss, to) == [clip |-> clip, seg |-> seg, ss |-> ss, to |-> to]

\* an entry of a plan: one video to produce
VideoDefinition(vid_title, timestamps) ==
    [vid_title |-> vid_title, source_segment_timestamps |-> timestamps]

Extraction(raised, cuts) == [raised |-> raised, cuts |-> cuts]

\* video_service.py lines 81-104: the loop over the timestamps of one video.
\* timestamp_obj.get on the string "UNKNOWN_TIMESTAMP" raises AttributeError,
\* which no handler inside the loop catches.
RECURSIVE ExtractSegments(_, _, _, _)
ExtractSegments(timestamps, j, i, acc) ==
    IF j > Len(timestamps) THEN acc
    ELSE LET timestamp_obj == timestamps[j]
         IN  IF timestamp_obj.t # "dict"
             THEN Extraction(TRUE, acc.cuts)
             ELSE IF timestamp_obj.end <= timestamp_obj.start
                     \/ timestamp_obj.start > VideoDuration
             THEN ExtractSegments(timestamps, j + 1, i, acc)
             ELSE ExtractSegments(timestamps, j + 1, i,
                      Extraction(FALSE,
                                 Append(acc.cuts,
                                        Cut(i, j - 1, timestamp_obj.start,
                                            Min(timestamp_obj.end, VideoDuration)))))

\* what process_video_with_ffmpeg has done: it raised inside (and returns
\* False), the ranges it cut, the videos it produced
Processing(raised, cuts, produced) ==
    [raised |-> raised, cuts |-> cuts, produced |-> produced]

\* video_service.py lines 66-132: the loop over the videos of the plan
RECURSIVE ProcessDefinitions(_, _, _)
ProcessDefinitions(video_definitions, i, acc) ==
    IF i > Len(video_definitions) THEN acc
    ELSE LET timestamps == video_definitions[i].source_segment_timestamps
             ex == ExtractSegments(timestamps, 1, i, Extraction(FALSE, <<>>))
         IN  IF Len(timestamps) = 0
             THEN ProcessDefinitions(video_definitions, i + 1, acc)
             ELSE IF ex.raised
             THEN Processing(TRUE, acc.cuts \o ex.cuts, acc.produced)
             ELSE IF Len(ex.cuts) = 0
             THEN ProcessDefinitions(video_definitions, i + 1, acc)
             ELSE ProcessDefinitions(video_definitions, i + 1,
                      Processing(FALSE, acc.cuts \o ex.cuts, Append(acc.produced, i)))

\* video_service.py lines 42-140 (trim_concat.py lines 37-172): success, the
\* ranges cut, the videos produced
process_video_with_ffmpeg(video_definitions) ==
    LET done == ProcessDefinitions(video_definitions, 1, Processing(FALSE, <<>>, <<>>))
    IN  [ok |-> ~done.raised, cuts |-> done.cuts, produced |-> done.produced]

\* one entry of video_result: the call made for snippet number job (0: the
\* call made on the whole mapped artifact) and what it returned
VideoReturn(job, r) == [job |-> job, ok |-> r.ok, produced |-> r.produced]

\* one entry of trims
Trim(job, cut) == [job |-> job, clip |-> cut.clip, seg |-> cut.seg, ss |-> cut.ss, to |-> cut.to]

\* a row of the snippet table
SnippetRow(name, start_second, end_second) ==
    [name |-> name, start_second |-> start_second, end_second |-> end_second]

\* tasks.py lines 124-132: name, int(item.get('start', 0)), int(item.get('end', 0))
SnippetOf(item) ==
    SnippetRow(item.vid_title,
               IF item.has_times THEN item.start ELSE 0,
               IF item.has_times THEN item.end ELSE 0)

\* tasks.py lines 113-134: one snippet row per item of the mapped artifact,
\* then job_status "Finished"
SaveSnippets ==
    /\ pc = "save"
    /\ pc' = "done"
    /\ snippets' = [k \in 1..Len(files[F6]) |-> SnippetOf(files[F6][k])]
    /\ status_writes' = Append(status_writes, StatusFinished)
    /\ UNCHANGED <<mini_segments, num_batches, batch_i, all_break_points,
                   chunk_breaks, break_points, merged_segments, all_removal_objects,
                   seen_ids, batch_removals, removal_data, files, result, oracle_log,
                   crew_raw, llm_return, stage_trace, prompt_log>>
    /\ UNCHANGED <<sessions, enqueued, req, trims, video_result>>

Called(job) == \E n \in 1..Len(video_result) : video_result[n].job = job

\* generate_snippet_video, tasks.py lines 164-258, for snippet row k: a plan
\* of one video with the one range start_second..end_second
GenerateSnippetVideo(k) ==
    /\ pc = "done"
    /\ k \in 1..Len(snippets)
    /\ ~Called(k)
    /\ LET plan == <<VideoDefinition(snippets[k].name,
                                      <<[t |-> "dict", start |-> snippets[k].start_second,
                                         end |-> snippets[k].end_second]>>)>>
           r == process_video_with_ffmpeg(plan)
       IN  /\ trims' = trims \o [n \in 1..Len(r.cuts) |-> Trim(k, r.cuts[n])]
           /\ video_result' = Append(video_result, VideoReturn(k, r))
    /\ UNCHANGED pipelineVars
    /\ UNCHANGED <<sessions, enqueued, req, snippets>>

\* process_video_with_ffmpeg called on 6-final_results_mapped.json itself
\* (api.py lines 215-220): the root of the JSON is the list of mapped clips
ProcessMappedArtifact ==
    /\ pc \in {"save", "done"}
    /\ Loaded(files, F6)
    /\ ~Called(0)
    /\ LET r == process_video_with_ffmpeg(files[F6])
       IN  /\ trims' = trims \o [n \in 1..Len(r.cuts) |-> Trim(0, r.cuts[n])]
           /\ video_result' = Append(video_result, VideoReturn(0, r))
    /\ UNCHANGED pipelineVars
    /\ UNCHANGED <<sessions, enqueued, req, snippets>>

\* the ids a final clip may list: every merged segment, and one that never existed
ClipIds == {SegId(k) : k \in 1..MaxUnits} \cup {SegId(9)}

\* the time the crew is asked to copy: of the named segment, 0 for a made-up id
TimeOfId(segs, id, field) ==
    LET hits == {k \in 1..Len(segs) : segs[k].id = id}
    IN  IF hits = {} THEN 0
        ELSE IF field = "start" THEN segs[MinOf(hits)].start ELSE segs[MinOf(hits)].end

VideoClips(segs) ==
    {TimedClip("t", u, TimeOfId(segs, u[1], "start"), TimeOfId(segs, u[Len(u)], "end")) :
        u \in SeqUpTo(ClipIds, MaxUsed) \ {<<>>}}

\* run_postprocessing has just returned True inside process_session_pipeline:
\* every line of the transcript is a BigSegment of its own, nothing was
\* removed, and the final list holds up to MaxClips clips
InitVideo ==
    /\ sessions = <<>>
    /\ enqueued = <<>>
    /\ req = NoRequests
    /\ snippets = <<>>
    /\ trims = <<>>
    /\ video_result = <<>>
    /\ pc = "save"
    /\ mini_segments = WithIds(FixedTranscript(MaxUnits))
    /\ num_batches = 1
    /\ batch_i = 0
    /\ break_points = [k \in 1..MaxUnits |-> k - 1]
    /\ all_break_points = break_points
    /\ chunk_breaks = <<break_points>>
    /\ merged_segments = execute_merge_plan(mini_segments, break_points)
    /\ all_removal_objects = <<>>
    /\ seen_ids = {}
    /\ batch_removals = <<>>
    /\ removal_data = <<>>
    /\ \E final \in SeqUpTo(VideoClips(merged_segments), MaxClips) :
         files = run_postprocessing(
                     save_json(save_json(save_json(save_json(save_json(NoFiles,
                         F1, mini_segments),
                         F2, merged_segments),
                         F2a, MappingOf(merged_segments)),
                         F2b, merged_segments),
                         F5, final)).files
    /\ result = "True"
    /\ oracle_log = <<>>
    /\ crew_raw = <<>>
    /\ llm_return = NotReturned
    /\ status_writes = ProcessingWrites
    /\ stage_trace = <<StageReturn("run_preprocessing", "True", NoException),
                       StageReturn("run_crewai_pipeline", "True", NoException),
                       StageReturn("run_postprocessing", "True", NoException)>>
    /\ prompt_log = <<>>

NextVideo ==
    \/ SaveSnippets
    \/ \E k \in 1..MaxClips : GenerateSnippetVideo(k)
    \/ ProcessMappedArtifact

SpecVideo == InitVideo /\ [][NextVideo]_vars

\* the ranges cut in the call made for job, in the order of the calls
CutsOf(job) ==
    LET mine == SelectSeq(trims, LAMBDA c : c.job = job)
    IN  [n \in 1..Len(mine) |-> <<mine[n].ss, mine[n].to>>]

AllKnown(item) ==
    \A j \in 1..Len(item.source_segment_timestamps) :
        item.source_segment_timestamps[j].t = "dict"

\* C27: the ranges handed to the trimming engine for the snippet of a mapped
\* clip are that clip's source_segment_timestamps, one range per BigSegment
\* used and in the same order, so that what lies between two segments that
\* are not adjacent is not cut into the video.
C27_TrimRangesAreSegmentTimestamps ==
    \A k \in 1..Len(snippets) :
        (Called(k) /\ AllKnown(files[F6][k])) =>
            CutsOf(k) = [j \in 1..Len(files[F6][k].source_segment_timestamps) |->
                            <<files[F6][k].source_segment_timestamps[j].start,
                              files[F6][k].source_segment_timestamps[j].end>>]

HasSentinel(item) == ~AllKnown(item)

\* a range the engine accepts: an object whose end lies after its start,
\* starting inside the video
ValidRange(ts) == ts.t = "dict" /\ ts.end > ts.start /\ ts.start <= VideoDuration

\* C28: when the mapped artifact holds a clip with "UNKNOWN_TIMESTAMP" among
\* its source_segment_timestamps, process_video_with_ffmpeg still cuts every
\* valid range of every clip, the other ranges of that clip included,
\* produces a video for every clip that has a valid range and reports success.
C28_SentinelDoesNotAbortBatch ==
    \A n \in 1..Len(video_result) :
        (video_result[n].job = 0
            /\ \E i \in 1..Len(files[F6]) : HasSentinel(files[F6][i])) =>
            /\ video_result[n].ok
            /\ \A i \in 1..Len(files[F6]) :
                  \A j \in 1..Len(files[F6][i].source_segment_timestamps) :
                      ValidRange(files[F6][i].source_segment_timestamps[j]) =>
                          /\ \E c \in 1..Len(trims) :
                                trims[c].job = 0 /\ trims[c].clip = i /\ trims[c].seg = j - 1
                          /\ \E q \in 1..Len(video_result[n].produced) :
                                video_result[n].produced[q] = i

====
